---- MODULE Spec2Model ----
(***************************************************************************)
(* A model of the kuantokusta command-line client: the search scraper      *)
(* (src/src/api/scraper.rs), the response model (src/src/api/models.rs)    *)
(* and the typed API client (src/src/api/client.rs).                       *)
(*                                                                         *)
(* Text (an HTML page, a JSON document, a Rust String) is a sequence of    *)
(* tokens.  A token is a record: a JSON punctuation mark (the double quote *)
(* among them), a JSON literal, a JSON number, or a piece of raw text that *)
(* is none of these.  A JSON string is the tokens between two quotes.  The *)
(* markers the scraper searches for are sequences of two raw tokens, so    *)
(* that a text can hold half a marker, and a JSON string can hold one.     *)
(***************************************************************************)
EXTENDS Integers, Sequences, FiniteSets, TLC

VARIABLES
    html,           \* SpecParse: the page handed to parse_search_html
    max,            \* SpecParse: the caller's cap on the product list
    json_str,       \* SpecParse: <<text>> handed to the JSON decoder, or <<>>
    search_result,  \* SpecParse: what parse_search_html returned
    doc,            \* SpecDecode: the JSON text handed to serde_json::from_str
    target,         \* SpecDecode: the name of the type it is decoded into
    decoded,        \* SpecDecode: what from_str returned
    pc,             \* position of the current invocation / evaluation
    call,           \* Spec: the client call being made
    resp,           \* Spec: what the transport delivered for the request
    result,         \* Spec: what the client call returned
    requests,       \* Spec: the requests the invocation has sent
    args,           \* Spec: the command and the arguments it was invoked with
    output,         \* Spec: what the command returned to main
    stdout,         \* Spec: what main printed
    given,          \* SpecFormat: the function applied and its arguments
    rendered        \* SpecFormat: <<what the function returned>>, or <<>>

vars == <<html, max, json_str, search_result, doc, target, decoded, pc, call, resp,
          result, requests, args, output, stdout, given, rendered>>

(***************************************************************************)
(* Tokens                                                                  *)
(***************************************************************************)
P(s) == [c |-> "punct", s |-> s]
N(n) == [c |-> "num", int |-> TRUE, n |-> n]
\* a number written with a fraction; n is the value in tenths (15 is 1.5)
F(n) == [c |-> "num", int |-> FALSE, n |-> n]
X(s) == [c |-> "raw", s |-> s]
Null == [c |-> "lit", s |-> "null"]
True == [c |-> "lit", s |-> "true"]
False == [c |-> "lit", s |-> "false"]

LBrace == P("{")
RBrace == P("}")
LBracket == P("[")
RBracket == P("]")
Colon == P(":")
Comma == P(",")
Quote == P("\"")

\* an escape sequence inside a JSON string, standing for the character ch
Esc(ch) == [c |-> "esc", ch |-> ch]

\* the characters of the content of a JSON string, escapes resolved
Unescape(w) == [x \in 1..Len(w) |-> IF w[x].c = "esc" THEN w[x].ch ELSE w[x]]

\* the Rust string literal "s" of one word
Lit(s) == <<X(s)>>

\* the JSON string whose content is the text w
JStr(w) == <<Quote>> \o w \o <<Quote>>

(***************************************************************************)
(* str::find, str::contains and slicing, with Rust's 0-based offsets       *)
(***************************************************************************)
NotFound == 0 - 1

\* whether pat occurs in text at 0-based offset k
OccursAt(text, pat, k) ==
    /\ k >= 0
    /\ k + Len(pat) <= Len(text)
    /\ \A j \in 1..Len(pat) : text[k + j] = pat[j]

\* str::find: the offset of the first occurrence, or NotFound (None)
Find(text, pat) ==
    LET hits == {k \in 0..Len(text) : OccursAt(text, pat, k)}
    IN  IF hits = {} THEN NotFound
        ELSE CHOOSE k \in hits : \A m \in hits : k <= m

Contains(text, pat) == Find(text, pat) # NotFound

\* &text[from..to]
Slice(text, from, to) == SubSeq(text, from + 1, to)

\* &text[from..]
SliceFrom(text, from) == SubSeq(text, from + 1, Len(text))

(***************************************************************************)
(* The response model: src/src/api/models.rs and the private structs of    *)
(* src/src/api/scraper.rs.  A type is a descriptor; a struct is named and  *)
(* its fields are listed in declaration order, each with its Rust name,    *)
(* its type and whether it carries #[serde(default)].                      *)
(***************************************************************************)
U64 == [k |-> "u64"]
U32 == [k |-> "u32"]
U8 == [k |-> "u8"]
F64 == [k |-> "f64"]
F32 == [k |-> "f32"]
Str == [k |-> "String"]
Bool == [k |-> "bool"]
Opt(t) == [k |-> "Option", of |-> t]
Vec(t) == [k |-> "Vec", of |-> t]
Struct(n) == [k |-> "struct", name |-> n]

IntKinds == {"u64", "u32", "u8"}
FloatKinds == {"f64", "f32"}

\* u8::MAX; the limits of u32 and u64 lie beyond every number of the model
U8Max == 255

Req(n, t) == [name |-> n, ty |-> t, dflt |-> FALSE]
Dft(n, t) == [name |-> n, ty |-> t, dflt |-> TRUE]

NextData == [rename |-> FALSE, fields |-> <<Req("props", Struct("Props"))>>]

Props == [rename |-> TRUE, fields |-> <<Req("page_props", Struct("PageProps"))>>]

PageProps == [rename |-> TRUE, fields |-> <<Req("base_page", Struct("BasePage"))>>]

\* BasePage with #[serde(default)] on total
BasePage_TotalDefaulted ==
    [rename |-> FALSE,
     fields |-> <<Req("data", Vec(Struct("Product"))), Dft("total", U64)>>]

BasePage ==
    [rename |-> FALSE,
     fields |-> <<Req("data", Vec(Struct("Product"))), Req("total", U64)>>]

\* Product without #[serde(default)] on brand
Product_BrandRequired ==
    [rename |-> TRUE,
     fields |-> <<Req("id", U64),
                  Req("name", Str),
                  Req("brand", Str),
                  Dft("category", Str),
                  Dft("price_min", F64),
                  Dft("total_offers", U32),
                  Dft("url", Str),
                  Dft("images", Vec(Str)),
                  Dft("badges", Struct("Badges")),
                  Dft("rating", Opt(Struct("Rating"))),
                  Dft("tags", Struct("Tags"))>>]

Product ==
    [rename |-> TRUE,
     fields |-> <<Req("id", U64),
                  Req("name", Str),
                  Dft("brand", Str),
                  Dft("category", Str),
                  Dft("price_min", F64),
                  Dft("total_offers", U32),
                  Dft("url", Str),
                  Dft("images", Vec(Str)),
                  Dft("badges", Struct("Badges")),
                  Dft("rating", Opt(Struct("Rating"))),
                  Dft("tags", Struct("Tags"))>>]

Badges ==
    [rename |-> TRUE,
     fields |-> <<Dft("is_best_seller", Bool),
                  Dft("is_best_price", Bool),
                  Dft("is_customers_favorite", Bool),
                  Dft("discount_percentage", Opt(U8))>>]

Rating ==
    [rename |-> TRUE,
     fields |-> <<Dft("rating_count", F32), Dft("reviews_count", U32)>>]

Tags ==
    [rename |-> TRUE,
     fields |-> <<Dft("is_marketplace", Bool),
                  Dft("adult_only", Bool),
                  Dft("has_split_payment", Bool),
                  Dft("discount_percentage", Opt(U8))>>]

ProductsResponse ==
    [rename |-> FALSE,
     fields |-> <<Req("data", Vec(Struct("Product"))),
                  Dft("page", U32),
                  Dft("rows", U32),
                  Dft("total", U64)>>]

RelatedResponse ==
    [rename |-> FALSE,
     fields |-> <<Req("data", Vec(Struct("Product"))), Dft("count", U64)>>]

\* PriceHistory with #[serde(default)] on max_axis
PriceHistory_MaxAxisDefaulted ==
    [rename |-> TRUE,
     fields |-> <<Req("min_axis", F64),
                  Dft("max_axis", F64),
                  Req("data", Vec(Struct("PricePoint")))>>]

PriceHistory ==
    [rename |-> TRUE,
     fields |-> <<Req("min_axis", F64),
                  Req("max_axis", F64),
                  Req("data", Vec(Struct("PricePoint")))>>]

PricePoint ==
    [rename |-> FALSE,
     fields |-> <<Req("date", Str), Req("avg", F64), Req("min", F64)>>]

Category ==
    [rename |-> TRUE,
     fields |-> <<Req("id", U64),
                  Dft("parent_id", Opt(U64)),
                  Req("label", Str),
                  Req("slug", Str),
                  Dft("has_child", Bool),
                  Dft("url", Str),
                  Dft("image_url", Opt(Str))>>]

\* Deal with brand required
Deal_BrandRequired ==
    [rename |-> TRUE,
     fields |-> <<Req("id", U64),
                  Req("name", Str),
                  Dft("images", Vec(Str)),
                  Dft("price_min", F64),
                  Dft("total_offers", U32),
                  Dft("url", Str),
                  Req("brand", Str),
                  Dft("badges", Struct("Badges")),
                  Dft("rating", Opt(Struct("Rating"))),
                  Dft("tags", Struct("Tags"))>>]

Deal ==
    [rename |-> TRUE,
     fields |-> <<Req("id", U64),
                  Req("name", Str),
                  Dft("images", Vec(Str)),
                  Dft("price_min", F64),
                  Dft("total_offers", U32),
                  Dft("url", Str),
                  Dft("brand", Str),
                  Dft("badges", Struct("Badges")),
                  Dft("rating", Opt(Struct("Rating"))),
                  Dft("tags", Struct("Tags"))>>]

DealsResponse ==
    [rename |-> FALSE,
     fields |-> <<Req("data", Vec(Struct("Deal"))),
                  Dft("page", U32),
                  Dft("rows", U32),
                  Dft("total", U64)>>]

StructDef(n) ==
    CASE n = "NextData" -> NextData
      [] n = "Props" -> Props
      [] n = "PageProps" -> PageProps
      [] n = "BasePage" -> BasePage
      [] n = "Product" -> Product
      [] n = "Badges" -> Badges
      [] n = "Rating" -> Rating
      [] n = "Tags" -> Tags
      [] n = "ProductsResponse" -> ProductsResponse
      [] n = "RelatedResponse" -> RelatedResponse
      [] n = "PriceHistory" -> PriceHistory
      [] n = "PricePoint" -> PricePoint
      [] n = "Category" -> Category
      [] n = "Deal" -> Deal
      [] n = "DealsResponse" -> DealsResponse

\* #[serde(rename_all = "camelCase")]: the JSON key of a Rust field name
CamelCase(n) ==
    CASE n = "page_props" -> "pageProps"
      [] n = "base_page" -> "basePage"
      [] n = "price_min" -> "priceMin"
      [] n = "total_offers" -> "totalOffers"
      [] n = "is_best_seller" -> "isBestSeller"
      [] n = "is_best_price" -> "isBestPrice"
      [] n = "is_customers_favorite" -> "isCustomersFavorite"
      [] n = "discount_percentage" -> "discountPercentage"
      [] n = "rating_count" -> "ratingCount"
      [] n = "reviews_count" -> "reviewsCount"
      [] n = "is_marketplace" -> "isMarketplace"
      [] n = "adult_only" -> "adultOnly"
      [] n = "has_split_payment" -> "hasSplitPayment"
      [] n = "min_axis" -> "minAxis"
      [] n = "max_axis" -> "maxAxis"
      [] n = "parent_id" -> "parentId"
      [] n = "has_child" -> "hasChild"
      [] n = "image_url" -> "imageUrl"
      [] OTHER -> n

Fields(n) == StructDef(n).fields

\* the JSON key under which field f of struct n travels
KeyOf(n, f) == IF StructDef(n).rename THEN CamelCase(f.name) ELSE f.name

\* the position of the field of struct n that JSON key k names, 0 if none
FieldByKey(n, k) ==
    LET hits == {x \in 1..Len(Fields(n)) : Lit(KeyOf(n, Fields(n)[x])) = k}
    IN  IF hits = {} THEN 0 ELSE CHOOSE x \in hits : TRUE

\* the struct value whose fields, in declaration order, are vals
MkStruct(n, vals) ==
    [f \in {Fields(n)[x].name : x \in 1..Len(Fields(n))} |->
        vals[CHOOSE x \in 1..Len(Fields(n)) : Fields(n)[x].name = f]]

\* Default::default() of a type; Option is <<>> (None) or <<v>> (Some(v)),
\* a float is held in tenths
RECURSIVE DefaultOf(_)
DefaultOf(ty) ==
    CASE ty.k \in IntKinds \cup FloatKinds -> 0
      [] ty.k = "String" -> <<>>
      [] ty.k = "bool" -> FALSE
      [] ty.k = "Option" -> <<>>
      [] ty.k = "Vec" -> <<>>
      [] ty.k = "struct" ->
            MkStruct(ty.name,
                     [x \in 1..Len(Fields(ty.name)) |->
                         DefaultOf(Fields(ty.name)[x].ty)])

(***************************************************************************)
(* serde_json::from_str into a derived Deserialize type.  The decoder      *)
(* reads the text once, left to right, and stops at the first error: a     *)
(* type error met before a syntax error is the error reported.  s is the   *)
(* text, i the 1-based position of the next token.  A result is            *)
(* [ok, v, i, e]: the value and the position after it, or the error.       *)
(***************************************************************************)
DeOk(v, i) == [ok |-> TRUE, v |-> v, i |-> i, e |-> <<>>]

\* serde_json::Error: its category (Syntax, Eof, Data), what it says, about
\* what, and where
DeErr(cat, code, what, at) ==
    [ok |-> FALSE, v |-> <<>>, i |-> at,
     e |-> <<[cat |-> cat, code |-> code, what |-> what, at |-> at]>>]

\* tokens that can begin no JSON value
NoValueStart == {RBrace, RBracket, Colon, Comma}

\* parse_str: the string whose opening quote is at i: its content is every
\* token up to the next quote
StrAt(s, i) ==
    LET close == {j \in (i + 1)..Len(s) : s[j] = Quote}
    IN  IF i > Len(s) \/ s[i] # Quote
        THEN DeErr("Syntax", "expected string", "", i)
        ELSE IF close = {}
        THEN DeErr("Eof", "EOF while parsing a string", "", Len(s) + 1)
        ELSE LET j == CHOOSE j \in close : \A m \in close : j <= m
             IN  DeOk(Unescape(SubSeq(s, i + 1, j - 1)), j + 1)

\* peek_invalid_type / "expected value": the token at i is not what the
\* visitor expects
Unexpected(s, i, what) ==
    IF i > Len(s) THEN DeErr("Eof", "EOF while parsing a value", what, i)
    ELSE IF s[i].c = "raw" \/ s[i] \in NoValueStart
         THEN DeErr("Syntax", "expected value", what, i)
    ELSE IF s[i] = Quote /\ ~StrAt(s, i).ok THEN StrAt(s, i)
    ELSE DeErr("Data", "invalid type", what, i)

\* the next item of a sequence or a map whose opening bracket has been read:
\* [st |-> "end", i] after the closing bracket, [st |-> "item", i] at the
\* item (after its comma), or [st |-> "err", r]
Step(s, i, first, close) ==
    IF i > Len(s)
    THEN [st |-> "err", r |-> DeErr("Eof", "EOF while parsing", "", i)]
    ELSE IF s[i] = close THEN [st |-> "end", i |-> i + 1]
    ELSE IF first THEN [st |-> "item", i |-> i]
    ELSE IF s[i] # Comma
    THEN [st |-> "err", r |-> DeErr("Syntax", "expected , or end", "", i)]
    ELSE IF i + 1 > Len(s)
    THEN [st |-> "err", r |-> DeErr("Eof", "EOF while parsing", "", i + 1)]
    ELSE IF s[i + 1] = close
    THEN [st |-> "err", r |-> DeErr("Syntax", "trailing comma", "", i + 1)]
    ELSE [st |-> "item", i |-> i + 1]

\* a map's key at j and the colon after it: the position of the value
KeyColon(s, j) ==
    LET key == StrAt(s, j)
    IN  IF s[j] # Quote THEN DeErr("Syntax", "key must be a string", "", j)
        ELSE IF ~key.ok THEN key
        ELSE IF key.i > Len(s)
        THEN DeErr("Eof", "EOF while parsing an object", "", key.i)
        ELSE IF s[key.i] # Colon THEN DeErr("Syntax", "expected :", "", key.i)
        ELSE DeOk(key.v, key.i + 1)

\* a number into an integer type with the given maximum (0 for no maximum
\* within the model), or into a float (held in tenths)
DeNum(ty, s, i) ==
    IF i > Len(s) \/ s[i].c # "num" THEN Unexpected(s, i, ty.k)
    ELSE IF ty.k \in FloatKinds
         THEN DeOk(IF s[i].int THEN 10 * s[i].n ELSE s[i].n, i + 1)
    ELSE IF ~s[i].int THEN DeErr("Data", "invalid type", ty.k, i)
    ELSE IF s[i].n < 0 \/ (ty.k = "u8" /\ s[i].n > U8Max)
         THEN DeErr("Data", "invalid value", ty.k, i)
    ELSE DeOk(s[i].n, i + 1)

RECURSIVE Skip(_, _), SkipElems(_, _, _), SkipMembers(_, _, _)
\* serde::de::IgnoredAny: any syntactically valid JSON value
Skip(s, i) ==
    IF i > Len(s) THEN Unexpected(s, i, "any")
    ELSE IF s[i].c \in {"num", "lit"} THEN DeOk(<<>>, i + 1)
    ELSE IF s[i] = Quote THEN StrAt(s, i)
    ELSE IF s[i] = LBracket THEN SkipElems(s, i + 1, TRUE)
    ELSE IF s[i] = LBrace THEN SkipMembers(s, i + 1, TRUE)
    ELSE DeErr("Syntax", "expected value", "any", i)

SkipElems(s, i, first) ==
    LET st == Step(s, i, first, RBracket)
    IN  CASE st.st = "err" -> st.r
          [] st.st = "end" -> DeOk(<<>>, st.i)
          [] st.st = "item" ->
                LET r == Skip(s, st.i)
                IN  IF r.ok THEN SkipElems(s, r.i, FALSE) ELSE r

SkipMembers(s, i, first) ==
    LET st == Step(s, i, first, RBrace)
    IN  CASE st.st = "err" -> st.r
          [] st.st = "end" -> DeOk(<<>>, st.i)
          [] st.st = "item" ->
                LET kc == KeyColon(s, st.i)
                IN  IF ~kc.ok THEN kc
                    ELSE LET r == Skip(s, kc.i)
                         IN  IF r.ok THEN SkipMembers(s, r.i, FALSE) ELSE r

\* the end of a derived visit_map / visit_seq: every field never given takes
\* Default::default() when it carries #[serde(default)], and is a "missing
\* field" error otherwise (the first such field in declaration order).
\* acc[x] is <<>> or <<v>> for field x
Finish(n, acc, i) ==
    LET missing == {x \in 1..Len(acc) : acc[x] = <<>> /\ ~Fields(n)[x].dflt}
    IN  IF missing # {}
        THEN DeErr("Data", "missing field",
                   KeyOf(n, Fields(n)[CHOOSE x \in missing :
                                          \A y \in missing : x <= y]), i)
        ELSE DeOk(MkStruct(n, [x \in 1..Len(acc) |->
                                  IF acc[x] = <<>>
                                  THEN DefaultOf(Fields(n)[x].ty)
                                  ELSE acc[x][1]]), i)

RECURSIVE De(_, _, _), DeElems(_, _, _, _, _), DeFields(_, _, _, _, _),
          DeTuple(_, _, _, _, _, _)
\* Deserialize::deserialize of type ty at position i
De(ty, s, i) ==
    CASE ty.k \in IntKinds \cup FloatKinds -> DeNum(ty, s, i)
      [] ty.k = "String" ->
            IF i <= Len(s) /\ s[i] = Quote THEN StrAt(s, i)
            ELSE Unexpected(s, i, "String")
      [] ty.k = "bool" ->
            IF i <= Len(s) /\ s[i] \in {True, False} THEN DeOk(s[i] = True, i + 1)
            ELSE Unexpected(s, i, "bool")
      [] ty.k = "Option" ->
            IF i <= Len(s) /\ s[i] = Null THEN DeOk(<<>>, i + 1)
            ELSE LET r == De(ty.of, s, i)
                 IN  IF r.ok THEN DeOk(<<r.v>>, r.i) ELSE r
      [] ty.k = "Vec" ->
            IF i <= Len(s) /\ s[i] = LBracket
            THEN DeElems(ty.of, s, i + 1, <<>>, TRUE)
            ELSE Unexpected(s, i, "Vec")
      [] ty.k = "struct" ->
            \* deserialize_struct: a map by key, or a sequence by position
            IF i <= Len(s) /\ s[i] = LBrace
            THEN DeFields(ty.name, s, i + 1,
                          [x \in 1..Len(Fields(ty.name)) |-> <<>>], TRUE)
            ELSE IF i <= Len(s) /\ s[i] = LBracket
            THEN DeTuple(ty.name, s, i + 1, 1,
                         [x \in 1..Len(Fields(ty.name)) |-> <<>>], TRUE)
            ELSE Unexpected(s, i, ty.name)

\* the elements of a Vec
DeElems(ty, s, i, acc, first) ==
    LET st == Step(s, i, first, RBracket)
    IN  CASE st.st = "err" -> st.r
          [] st.st = "end" -> DeOk(acc, st.i)
          [] st.st = "item" ->
                LET r == De(ty, s, st.i)
                IN  IF r.ok THEN DeElems(ty, s, r.i, Append(acc, r.v), FALSE)
                    ELSE r

\* the derived visit_map: known keys fill their field (twice is "duplicate
\* field"), unknown keys are skipped
DeFields(n, s, i, acc, first) ==
    LET st == Step(s, i, first, RBrace)
    IN  CASE st.st = "err" -> st.r
          [] st.st = "end" -> Finish(n, acc, st.i)
          [] st.st = "item" ->
                LET kc == KeyColon(s, st.i)
                    x == FieldByKey(n, kc.v)
                IN  IF ~kc.ok THEN kc
                    ELSE IF x = 0
                    THEN LET r == Skip(s, kc.i)
                         IN  IF r.ok THEN DeFields(n, s, r.i, acc, FALSE) ELSE r
                    ELSE IF acc[x] # <<>>
                    THEN DeErr("Data", "duplicate field",
                               KeyOf(n, Fields(n)[x]), kc.i)
                    ELSE LET r == De(Fields(n)[x].ty, s, kc.i)
                         IN  IF r.ok
                             THEN DeFields(n, s, r.i,
                                           [acc EXCEPT ![x] = <<r.v>>], FALSE)
                             ELSE r

\* the derived visit_seq: field x is the x-th element; when the sequence
\* ends early the fields left take their default, or the error is "invalid
\* length"; elements beyond the last field are trailing characters
DeTuple(n, s, i, x, acc, first) ==
    IF x > Len(acc)
    THEN IF i > Len(s) THEN DeErr("Eof", "EOF while parsing a list", n, i)
         ELSE IF s[i] = RBracket THEN Finish(n, acc, i + 1)
         ELSE DeErr("Syntax", "trailing characters", n, i)
    ELSE LET st == Step(s, i, first, RBracket)
         IN  CASE st.st = "err" -> st.r
               [] st.st = "end" ->
                     IF \E y \in x..Len(acc) : ~Fields(n)[y].dflt
                     THEN DeErr("Data", "invalid length", n, i)
                     ELSE Finish(n, acc, st.i)
               [] st.st = "item" ->
                     LET r == De(Fields(n)[x].ty, s, st.i)
                     IN  IF r.ok
                         THEN DeTuple(n, s, r.i, x + 1,
                                      [acc EXCEPT ![x] = <<r.v>>], FALSE)
                         ELSE r

\* Deserializer::end: nothing may follow the value r read from a text of
\* n tokens
End(r, n) ==
    IF ~r.ok THEN r
    ELSE IF r.i <= n THEN DeErr("Syntax", "trailing characters", "", r.i)
    ELSE r

\* serde_json::from_str::<ty>(s): the value, then Deserializer::end
from_str(ty, s) == End(De(ty, s, 1), Len(s))

(***************************************************************************)
(* The search scraper: src/src/api/scraper.rs                              *)
(***************************************************************************)
\* r#"<script id="__NEXT_DATA__" type="application/json">"#
StartMarker == <<X("<script id=__NEXT_DATA__"), X("type=application/json>")>>

\* "</script>"
EndMarker == <<X("</"), X("script>")>>

\* "Access Denied"
BlockMarker == <<X("Access"), X("Denied")>>

\* anyhow::Result: Ok(v), or an error with its message (the outermost
\* context) and its cause (<<>>, or <<the serde_json error>>)
Ok(v) == [ok |-> TRUE, v |-> v]
Err(msg, cause) == [ok |-> FALSE, msg |-> msg, cause |-> cause]

MsgBlocked == "Access denied by CDN - please try again later"
MsgNoMarker == "Could not find __NEXT_DATA__ in page"
MsgNoEnd == "Could not find end of __NEXT_DATA__"
MsgBadJson == "Failed to parse __NEXT_DATA__ JSON"

\* Iterator::take(m).collect()
Take(seq, m) == SubSeq(seq, 1, IF m < Len(seq) THEN m ELSE Len(seq))

\* ExtractJson with the payload taken from the start of the start marker
ExtractJson_FromMarker(h) ==
    LET start == Find(h, StartMarker)
        json_end == Find(SliceFrom(h, start + Len(StartMarker)), EndMarker)
    IN  IF start = NotFound THEN Err(MsgNoMarker, <<>>)
        ELSE IF json_end = NotFound THEN Err(MsgNoEnd, <<>>)
        ELSE Ok(Slice(h, start, start + Len(StartMarker) + json_end))

\* ExtractJson with the end marker searched for in the whole page
ExtractJson_EndAnywhere(h) ==
    LET start == Find(h, StartMarker)
        json_start == start + Len(StartMarker)
        json_end == Find(h, EndMarker)
    IN  IF start = NotFound THEN Err(MsgNoMarker, <<>>)
        ELSE IF json_end = NotFound THEN Err(MsgNoEnd, <<>>)
        ELSE Ok(Slice(h, json_start, json_end))

\* ExtractJson with the payload cut at the last end marker of the page
ExtractJson_LastEnd(h) ==
    LET start == Find(h, StartMarker)
        json_start == start + Len(StartMarker)
        ends == {k \in json_start..Len(h) : OccursAt(h, EndMarker, k)}
    IN  IF start = NotFound THEN Err(MsgNoMarker, <<>>)
        ELSE IF ends = {} THEN Err(MsgNoEnd, <<>>)
        ELSE Ok(Slice(h, json_start, CHOOSE k \in ends : \A m \in ends : m <= k))

\* ExtractJson with the offset of the end marker taken from the start of the
\* page: the slice aborts when its end lies before its start
ExtractJson_EndAbsolute(h) ==
    LET start == Find(h, StartMarker)
        json_start == start + Len(StartMarker)
        json_end == Find(h, EndMarker)
    IN  IF start = NotFound THEN Err(MsgNoMarker, <<>>)
        ELSE IF json_end = NotFound THEN Err(MsgNoEnd, <<>>)
        ELSE IF json_end < json_start THEN [ok |-> FALSE, aborted |-> TRUE]
        ELSE Ok(Slice(h, json_start, json_end))

\* scraper.rs 82-91: the text between the markers, Ok(json_str) or the error
ExtractJson(h) ==
    LET start == Find(h, StartMarker)
        json_start == start + Len(StartMarker)
        json_end == Find(SliceFrom(h, json_start), EndMarker)
    IN  IF start = NotFound THEN Err(MsgNoMarker, <<>>)
        ELSE IF json_end = NotFound THEN Err(MsgNoEnd, <<>>)
        ELSE Ok(Slice(h, json_start, json_start + json_end))

\* SearchResultOf with the context message of the step before it
SearchResultOf_WrongContext(next_data, m) ==
    IF ~next_data.ok THEN Err(MsgNoEnd, next_data.e)
    ELSE Ok([products |-> Take(next_data.v.props.page_props.base_page.data, m),
             total |-> next_data.v.props.page_props.base_page.total])

\* SearchResultOf with the total counted from the capped list
SearchResultOf_TotalRecounted(next_data, m) ==
    IF ~next_data.ok THEN Err(MsgBadJson, next_data.e)
    ELSE Ok([products |-> Take(next_data.v.props.page_props.base_page.data, m),
             total |-> Len(Take(next_data.v.props.page_props.base_page.data, m))])

\* scraper.rs 93-99: next_data is what from_str returned; the context on its
\* error, or the product list capped and the total as decoded
SearchResultOf(next_data, m) ==
    IF ~next_data.ok THEN Err(MsgBadJson, next_data.e)
    ELSE Ok([products |-> Take(next_data.v.props.page_props.base_page.data, m),
             total |-> next_data.v.props.page_props.base_page.total])

\* scraper.rs 78: html.contains("Access Denied")
IsBlocked(h) == Contains(h, BlockMarker)

\* parse_search_html once the payload has been looked for (json is the
\* outcome of ExtractJson)
ParseExtracted(json, m) ==
    IF ~json.ok THEN json
    ELSE SearchResultOf(from_str(Struct("NextData"), json.v), m)

\* parse_search_html with the block page looked for only once extraction
\* has failed
parse_search_html_GuardLate(h, m) ==
    IF ExtractJson(h).ok THEN ParseExtracted(ExtractJson(h), m)
    ELSE IF IsBlocked(h) THEN Err(MsgBlocked, <<>>)
    ELSE ExtractJson(h)

parse_search_html(h, m) ==
    IF IsBlocked(h) THEN Err(MsgBlocked, <<>>)
    ELSE ParseExtracted(ExtractJson(h), m)

\* the text parse_search_html hands to serde_json::from_str, if it gets there
DecoderInput(h) ==
    IF ~IsBlocked(h) /\ ExtractJson(h).ok THEN <<ExtractJson(h).v>> ELSE <<>>

(***************************************************************************)
(* Bounded inputs: JSON texts and pages                                    *)
(***************************************************************************)
MaxProducts == 2   \* the longest product list of a generated payload
MaxTotal == 2      \* generated totals are 0..MaxTotal and 100
MaxCap == 3        \* the caller's max ranges over 0..MaxCap

RECURSIVE Join(_)
\* the texts of a sequence, separated by commas
Join(ts) ==
    IF ts = <<>> THEN <<>>
    ELSE IF Len(ts) = 1 THEN ts[1]
    ELSE ts[1] \o <<Comma>> \o Join(Tail(ts))

\* the JSON object with members ms, each <<key, text of the value>>
JObj(ms) ==
    <<LBrace>>
        \o Join([x \in 1..Len(ms) |-> JStr(Lit(ms[x][1])) \o <<Colon>> \o ms[x][2]])
        \o <<RBrace>>

\* the JSON array with elements es
JArr(es) == <<LBracket>> \o Join(es) \o <<RBracket>>

ProdMin(id, name) == JObj(<< <<"id", <<N(id)>> >>, <<"name", JStr(name)>> >>)

Prod1 == ProdMin(1, Lit("a"))
Prod2 == ProdMin(2, Lit("b"))

\* the product of scraper.rs's mock_next_data_html
ProdFull ==
    JObj(<< <<"id", <<N(3)>> >>,
            <<"name", JStr(<<X("Test"), X("iPhone")>>)>>,
            <<"brand", JStr(Lit("Apple"))>>,
            <<"priceMin", <<F(9999)>> >>,
            <<"totalOffers", <<N(10)>> >>,
            <<"url", JStr(Lit("/p/test-iphone"))>>,
            <<"images", JArr(<<>>)>>,
            <<"badges", JObj(<<>>)>>,
            <<"tags", JObj(<<>>)>> >>)

\* products whose name holds a marker
ProdBlocked == ProdMin(4, BlockMarker)
ProdScript == ProdMin(5, EndMarker)

GoodProducts == {Prod1, Prod2, ProdFull}

\* data entries that are no Product
BadProducts ==
    {JObj(<< <<"name", JStr(Lit("a"))>> >>),
     JObj(<< <<"id", <<N(1)>> >> >>),
     JObj(<< <<"id", JStr(Lit("1"))>>, <<"name", JStr(Lit("a"))>> >>),
     JObj(<< <<"id", <<N(1)>> >>, <<"name", <<Null>> >> >>),
     JObj(<< <<"id", <<N(0 - 1)>> >>, <<"name", JStr(Lit("a"))>> >>),
     JArr(<< <<N(1)>>, JStr(Lit("a")) >>),
     <<N(1)>>}

DataLists == UNION {[1..n -> GoodProducts] : n \in 0..MaxProducts}

Totals == 0..MaxTotal \cup {100}

\* one level of the payload's nesting, written well (ok, extra) or badly
LevelKinds == {"ok", "extra", "missing", "misnamed", "null", "scalar", "seq", "dup"}

Level(kind, key, other, v) ==
    CASE kind = "ok" -> JObj(<< <<key, v>> >>)
      [] kind = "extra" -> JObj(<< <<"x", JArr(<< <<N(1)>>, JObj(<<>>) >>)>>, <<key, v>> >>)
      [] kind = "missing" -> JObj(<<>>)
      [] kind = "misnamed" -> JObj(<< <<other, v>> >>)
      [] kind = "null" -> JObj(<< <<key, <<Null>> >> >>)
      [] kind = "scalar" -> JObj(<< <<key, <<N(1)>> >> >>)
      [] kind = "seq" -> JArr(<<v>>)
      [] kind = "dup" -> JObj(<< <<key, v>>, <<key, v>> >>)

\* { props: { pageProps: { basePage: inner } } } with each level of a kind
Nest(k1, k2, k3, inner) ==
    Level(k1, "props", "Props",
          Level(k2, "pageProps", "page_props",
                Level(k3, "basePage", "base_page", inner)))

BasePageText(d, t) == JObj(<< <<"data", d>>, <<"total", t>> >>)

SearchDoc(ps, t) == Nest("ok", "ok", "ok", BasePageText(JArr(ps), <<N(t)>>))

\* the payloads whose every deviation is a permitted one
GoodDocs == {SearchDoc(ps, t) : ps \in DataLists, t \in Totals}

\* base-page texts: the first is well formed, the others deviate
BasePageTexts ==
    LET d == JArr(<<Prod1, Prod2>>)
    IN  {BasePageText(d, <<N(7)>>),
         JObj(<< <<"total", <<N(7)>> >>, <<"data", d>>, <<"page", <<N(1)>> >> >>),
         JObj(<< <<"data", d>> >>),
         JObj(<< <<"total", <<N(7)>> >> >>),
         BasePageText(d, <<Null>>),
         BasePageText(d, JStr(<<N(7)>>)),
         BasePageText(d, <<N(0 - 7)>>),
         BasePageText(d, <<F(75)>>),
         BasePageText(<<Null>>, <<N(7)>>),
         BasePageText(JObj(<<>>), <<N(7)>>),
         BasePageText(Prod1, <<N(7)>>),
         JArr(<<d, <<N(7)>> >>),
         JArr(<<d>>),
         JArr(<<d, <<N(7)>>, <<N(8)>> >>)}
        \cup {BasePageText(JArr(<<Prod1, b>>), <<N(7)>>) : b \in BadProducts}

\* the three levels' kinds: at most one level is not "ok", or all are alike
LevelChoices ==
    {<<k, "ok", "ok">> : k \in LevelKinds}
        \cup {<<"ok", k, "ok">> : k \in LevelKinds}
        \cup {<<"ok", "ok", k>> : k \in LevelKinds}
        \cup {<<k, k, k>> : k \in LevelKinds}

DeviantDocs ==
    {Nest(ks[1], ks[2], ks[3], inner) : ks \in LevelChoices, inner \in BasePageTexts}

\* texts one token away from a text: cut short, a token dropped, a token of
\* junk put in, a token replaced by a closing bracket
Corrupt(text) ==
    {SubSeq(text, 1, k) : k \in 0..(Len(text) - 1)}
        \cup {SubSeq(text, 1, k - 1) \o SubSeq(text, k + 1, Len(text)) :
                 k \in 1..Len(text)}
        \cup {SubSeq(text, 1, k) \o <<X("junk")>> \o SubSeq(text, k + 1, Len(text)) :
                 k \in 0..Len(text)}
        \cup {SubSeq(text, 1, k - 1) \o <<RBracket>> \o SubSeq(text, k + 1, Len(text)) :
                 k \in 1..Len(text)}

CorruptDocs ==
    Corrupt(SearchDoc(<<Prod1>>, 100))
        \cup Corrupt(Nest("scalar", "ok", "ok", <<>>))
        \cup {<<X("invalid"), X("json")>>,
              JObj(<< <<"test", <<True>> >> >>)}

\* the page around the payload
Page(text) == StartMarker \o text \o EndMarker

\* what may stand before and after the marked payload
Prefixes ==
    {<<>>, <<X("<html>")>>, BlockMarker, StartMarker, EndMarker,
     <<X("Access")>>, <<StartMarker[1]>>, <<StartMarker[2]>>,
     StartMarker \o Prod1 \o EndMarker}

Suffixes ==
    {<<>>, <<X("</html>")>>, BlockMarker, StartMarker, EndMarker,
     <<X("Denied")>>, <<EndMarker[2]>>}

\* payloads set in every surrounding
ProbeDocs ==
    {SearchDoc(<<Prod1, Prod2>>, 100),
     SearchDoc(<<ProdBlocked>>, 1),
     SearchDoc(<<ProdScript>>, 1),
     <<X("No"), X("data"), X("here")>>,
     <<>>}

ProbePages ==
    {p \o a \o text \o b \o s :
        p \in Prefixes, s \in Suffixes, text \in ProbeDocs,
        a \in {<<>>, StartMarker}, b \in {<<>>, EndMarker}}

HtmlInputs ==
    ProbePages \cup {Page(text) : text \in GoodDocs \cup DeviantDocs \cup CorruptDocs}

(***************************************************************************)
(* SpecParse: parse_search_html applied to one page                        *)
(***************************************************************************)
\* the variables a specification does not use
IdleParse == html = <<>> /\ max = 0 /\ json_str = <<>> /\ search_result = <<>>
IdleDecode == doc = <<>> /\ target = "" /\ decoded = <<>>
IdleFormat == given = <<>> /\ rendered = <<>>
IdleClient ==
    /\ call = <<>>
    /\ resp = <<>>
    /\ result = <<>>
    /\ requests = 0
    /\ args = <<>>
    /\ output = <<>>
    /\ stdout = <<>>

InitParse ==
    /\ html \in HtmlInputs
    /\ max \in 0..MaxCap
    /\ json_str = <<>>
    /\ search_result = <<>>
    /\ pc = "ready"
    /\ IdleDecode
    /\ IdleClient
    /\ IdleFormat

ParseSearchHtml ==
    /\ pc = "ready"
    /\ search_result' = parse_search_html(html, max)
    /\ json_str' = DecoderInput(html)
    /\ pc' = "done"
    /\ UNCHANGED <<html, max, doc, target, decoded, call, resp, result, requests,
                   args, output, stdout, given, rendered>>

NextParse == ParseSearchHtml

SpecParse == InitParse /\ [][NextParse]_vars

(***************************************************************************)
(* Properties of parse_search_html (SpecParse)                             *)
(***************************************************************************)
\* the 0-based offsets at which pat occurs in text
Occ(text, pat) ==
    {k \in 0..(Len(text) - Len(pat)) : SubSeq(text, k + 1, k + Len(pat)) = pat}

Least(set) == CHOOSE k \in set : \A m \in set : k <= m

Done == pc = "done"

\* the payload as decoded from the text handed to the decoder
Payload == from_str(Struct("NextData"), json_str[1])

\* C1: a page that holds "Access Denied" anywhere yields the Blocked error,
\* and the JSON decoder is never reached, even when a valid marker pair
\* around a valid payload is present.
C1_BlockedOverrides ==
    (Done /\ Occ(html, BlockMarker) # {})
        => search_result = Err(MsgBlocked, <<>>) /\ json_str = <<>>

\* a blocked page whose block marker lies inside a marked, decodable payload
C1_Witness ==
    /\ Done
    /\ search_result = Err(MsgBlocked, <<>>)
    /\ Occ(html, StartMarker) # {}
    /\ \E b \in Occ(html, BlockMarker) : b > Least(Occ(html, StartMarker))
    /\ ExtractJson(html).ok
    /\ from_str(Struct("NextData"), ExtractJson(html).v).ok

\* C2: a successful result holds the first min(max, n) products of the
\* decoded data list, in the payload's order, and the payload's total.
C2_CapKeepsOrderAndTotal ==
    (Done /\ search_result.ok) =>
        LET data == Payload.v.props.page_props.base_page.data
            products == search_result.v.products
        IN  /\ Len(products) = (IF max < Len(data) THEN max ELSE Len(data))
            /\ \A k \in 1..Len(products) : products[k] = data[k]
            /\ max = 0 => products = <<>>
            /\ search_result.v.total = Payload.v.props.page_props.base_page.total

\* the cap cuts a list of two products to one, and the total is neither
C2_Witness ==
    /\ Done
    /\ search_result.ok
    /\ max = 1
    /\ Len(Payload.v.props.page_props.base_page.data) = 2
    /\ Len(search_result.v.products) = 1
    /\ search_result.v.total = 100

\* C4: on a page without the block marker, no start marker is the error
\* MsgNoMarker, a start marker with no end marker after it is the error
\* MsgNoEnd, and the two errors differ.
C4_MarkerErrors ==
    (Done /\ Occ(html, BlockMarker) = {}) =>
        /\ Occ(html, StartMarker) = {} => search_result = Err(MsgNoMarker, <<>>)
        /\ (/\ Occ(html, StartMarker) # {}
            /\ \A e \in Occ(html, EndMarker) :
                  e < Least(Occ(html, StartMarker)) + Len(StartMarker))
              => search_result = Err(MsgNoEnd, <<>>)
        /\ Err(MsgNoMarker, <<>>) # Err(MsgNoEnd, <<>>)

\* the payload is unterminated although an end marker stands before the
\* start marker
C4_Witness ==
    /\ Done
    /\ search_result = Err(MsgNoEnd, <<>>)
    /\ Occ(html, EndMarker) # {}

\* whether text is one syntactically valid JSON value and nothing more
IsJson(text) == End(Skip(text, 1), Len(text)).ok

\* the page read as prefix + start marker + literal + end marker + suffix,
\* with the start marker at offset a and the end marker at offset b
Literal(a, b) == Slice(html, a + Len(StartMarker), b)

Splits ==
    {ab \in Occ(html, StartMarker) \X Occ(html, EndMarker) :
        /\ ab[2] >= ab[1] + Len(StartMarker)
        /\ IsJson(Literal(ab[1], ab[2]))}

\* C5 as claimed: whatever the prefix, the JSON literal and the suffix, the
\* text handed to the decoder is the literal.
C5_RoundTrip_AsClaimed ==
    Done => \A ab \in Splits : json_str = <<Literal(ab[1], ab[2])>>

\* C5: when the page does not hold "Access Denied", the prefix does not hold
\* the start marker and the literal does not hold the end marker, the text
\* handed to the decoder is exactly the literal.
C5_RoundTrip ==
    Done =>
        \A ab \in Splits :
            (/\ Occ(html, BlockMarker) = {}
             /\ ab[1] = Least(Occ(html, StartMarker))
             /\ Occ(Literal(ab[1], ab[2]), EndMarker) = {})
                => json_str = <<Literal(ab[1], ab[2])>>

\* a literal between a non-empty prefix and a suffix that holds a second end
\* marker reaches the decoder as it is
C5_Witness ==
    /\ Done
    /\ \E ab \in Splits :
          /\ ab[1] > 0
          /\ ab[1] = Least(Occ(html, StartMarker))
          /\ \E e \in Occ(html, EndMarker) : e > ab[2]
          /\ Len(Literal(ab[1], ab[2])) > 0
          /\ json_str = <<Literal(ab[1], ab[2])>>

\* the kind of outcome the page calls for, read off the page itself
KindOf(h) ==
    LET a == Least(Occ(h, StartMarker)) + Len(StartMarker)
        ends == {e \in Occ(h, EndMarker) : e >= a}
        text == Slice(h, a, Least(ends))
    IN  IF Occ(h, BlockMarker) # {} THEN "Blocked"
        ELSE IF Occ(h, StartMarker) = {} THEN "MarkerNotFound"
        ELSE IF ends = {} THEN "UnterminatedPayload"
        ELSE IF ~IsJson(text) THEN "DecodeFailure"
        ELSE IF ~from_str(Struct("NextData"), text).ok THEN "SchemaMismatch"
        ELSE "Decoded"

\* one page of each failing kind
KindProbes ==
    {BlockMarker,
     <<X("No"), X("data"), X("here")>>,
     StartMarker \o JObj(<< <<"test", <<True>> >> >>),
     Page(<<X("invalid"), X("json")>>),
     Page(JObj(<<>>)),
     Page(Nest("scalar", "ok", "ok", <<>>)),
     Page(Nest("ok", "ok", "ok", JObj(<< <<"data", JArr(<<>>)>> >>)))}

MsgOf(kind) ==
    CASE kind = "Blocked" -> MsgBlocked
      [] kind = "MarkerNotFound" -> MsgNoMarker
      [] kind = "UnterminatedPayload" -> MsgNoEnd
      [] kind \in {"DecodeFailure", "SchemaMismatch"} -> MsgBadJson

RECURSIVE JsonAt(_, _), JsonElems(_, _, _, _), JsonMembers(_, _, _, _)
JsonAt(s, i) ==
    IF i > Len(s) THEN Unexpected(s, i, "any")
    ELSE IF s[i].c \in {"num", "lit"} THEN DeOk([t |-> s[i].c, tok |-> s[i]], i + 1)
    ELSE IF s[i] = Quote
    THEN IF StrAt(s, i).ok
         THEN DeOk([t |-> "str", s |-> StrAt(s, i).v], StrAt(s, i).i)
         ELSE StrAt(s, i)
    ELSE IF s[i] = LBracket THEN JsonElems(s, i + 1, <<>>, TRUE)
    ELSE IF s[i] = LBrace THEN JsonMembers(s, i + 1, <<>>, TRUE)
    ELSE DeErr("Syntax", "expected value", "any", i)

JsonElems(s, i, acc, first) ==
    LET st == Step(s, i, first, RBracket)
    IN  CASE st.st = "err" -> st.r
          [] st.st = "end" -> DeOk([t |-> "arr", a |-> acc], st.i)
          [] st.st = "item" ->
                LET r == JsonAt(s, st.i)
                IN  IF r.ok THEN JsonElems(s, r.i, Append(acc, r.v), FALSE) ELSE r

JsonMembers(s, i, acc, first) ==
    LET st == Step(s, i, first, RBrace)
    IN  CASE st.st = "err" -> st.r
          [] st.st = "end" -> DeOk([t |-> "obj", m |-> acc], st.i)
          [] st.st = "item" ->
                LET kc == KeyColon(s, st.i)
                IN  IF ~kc.ok THEN kc
                    ELSE LET r == JsonAt(s, kc.i)
                         IN  IF r.ok
                             THEN JsonMembers(s, r.i,
                                      Append(acc, [k |-> kc.v, v |-> r.v]), FALSE)
                             ELSE r

\* object v has exactly one member named key
HasOne(v, key) ==
    v.t = "obj" /\ Cardinality({x \in 1..Len(v.m) : v.m[x].k = Lit(key)}) = 1

Get(v, key) == v.m[CHOOSE x \in 1..Len(v.m) : v.m[x].k = Lit(key)].v

IsUInt(v) == v.t = "num" /\ v.tok.int /\ v.tok.n >= 0

\* a level that holds the field: an object with the key or, when seq is
\* allowed, an array with an element at the field's position
Holds(v, key, pos, seq) ==
    HasOne(v, key) \/ (seq /\ v.t = "arr" /\ Len(v.a) >= pos)

FieldOf(v, key, pos) == IF v.t = "obj" THEN Get(v, key) ELSE v.a[pos]

\* props -> pageProps -> basePage -> {data, total}, every data entry with
\* id and name; with seq, a level may also be the array of its fields
Conforms(v, seq) ==
    /\ Holds(v, "props", 1, seq)
    /\ Holds(FieldOf(v, "props", 1), "pageProps", 1, seq)
    /\ LET pp == FieldOf(FieldOf(v, "props", 1), "pageProps", 1)
       IN  /\ Holds(pp, "basePage", 1, seq)
           /\ LET bp == FieldOf(pp, "basePage", 1)
              IN  /\ Holds(bp, "data", 1, seq)
                  /\ Holds(bp, "total", 2, seq)
                  /\ IsUInt(FieldOf(bp, "total", 2))
                  /\ FieldOf(bp, "data", 1).t = "arr"
                  /\ \A x \in 1..Len(FieldOf(bp, "data", 1).a) :
                        LET e == FieldOf(bp, "data", 1).a[x]
                        IN  /\ Holds(e, "id", 1, seq)
                            /\ Holds(e, "name", 2, seq)
                            /\ IsUInt(FieldOf(e, "id", 1))
                            /\ FieldOf(e, "name", 2).t = "str"

BuildFailure == [k |-> "build"]
SendFailure == [k |-> "error"]
Response(status, body) == [k |-> "response", status |-> status, body |-> body]

\* reqwest::Error, by its kind and its source
ReqwestError(kind, source) == [kind |-> kind, source |-> source]

\* Response::json, under .context(parse): the decoded value of a body that
\* was read, or the error of the decoder
json(ty, parse, decoding) ==
    IF decoding.ok THEN Ok(decoding.v)
    ELSE Err(parse, <<ReqwestError("Decode", decoding.e)>>)

\* send().await.context(fetch)? followed by resp.json().await.context(parse):
\* the status of the response is not looked at
get_json(ty, fetch, parse, net) ==
    IF net.k = "error" THEN Err(fetch, <<ReqwestError("Request", <<>>)>>)
    ELSE IF net.body = <<>> THEN Err(parse, <<ReqwestError("Body", <<>>)>>)
    ELSE json(ty, parse, from_str(ty, net.body[1]))

products(net) ==
    get_json(Struct("ProductsResponse"), "Failed to fetch products",
             "Failed to parse products response", net)

deals(net) ==
    get_json(Struct("DealsResponse"), "Failed to fetch deals",
             "Failed to parse deals response", net)

price_history(net) ==
    get_json(Struct("PriceHistory"), "Failed to fetch price history",
             "Failed to parse price history", net)

popular(net) ==
    get_json(Vec(Struct("Product")), "Failed to fetch popular products",
             "Failed to parse popular products", net)

related(net) ==
    get_json(Struct("RelatedResponse"), "Failed to fetch related products",
             "Failed to parse related products", net)

categories(net) ==
    get_json(Vec(Struct("Category")), "Failed to fetch categories",
             "Failed to parse categories", net)

\* scraper.rs search_with_base_url: build the client, fetch the page, read
\* its text, parse it; the status of the response is not looked at
search_with_base_url(m, net) ==
    IF net.k = "build" THEN Err("Failed to create wreq client", <<>>)
    ELSE IF net.k = "error"
    THEN Err("Failed to fetch search page", <<ReqwestError("Request", <<>>)>>)
    ELSE IF net.body = <<>>
    THEN Err("Failed to read search response", <<ReqwestError("Body", <<>>)>>)
    ELSE parse_search_html(net.body[1], m)

\* an f64: finite (in tenths), finite beyond u32::MAX, infinite, or NaN
Fin(n) == [k |-> "fin", tenths |-> n]
Huge == [k |-> "huge"]
Inf == [k |-> "inf"]
NegInf == [k |-> "neg_inf"]
NaN == [k |-> "nan"]

\* u32::MAX in base 10
U32MaxText == <<X("4294967295")>>

\* AsU32Text rounding to the nearest integer
AsU32Text_Rounded(x) ==
    CASE x.k = "nan" -> <<N(0)>>
      [] x.k = "neg_inf" -> <<N(0)>>
      [] x.k \in {"inf", "huge"} -> U32MaxText
      [] x.k = "fin" -> IF x.tenths <= 0 THEN <<N(0)>> ELSE <<N((x.tenths + 5) \div 10)>>

\* AsU32Text wrapping modulo 2^32 where the value lies outside u32
AsU32Text_Wrapping(x) ==
    CASE x.k = "nan" -> <<N(0)>>
      [] x.k = "neg_inf" -> <<N(0)>>
      [] x.k = "inf" -> U32MaxText
      [] x.k = "huge" -> <<X("huge mod 2^32")>>
      [] x.k = "fin" ->
            IF x.tenths >= 0 THEN <<N(x.tenths \div 10)>>
            ELSE IF x.tenths > 0 - 10 THEN <<N(0)>>
            ELSE <<X("2^32 -"), N((0 - x.tenths) \div 10)>>

\* (x as u32).to_string(): the cast truncates towards zero and saturates,
\* NaN becomes 0
AsU32Text(x) ==
    CASE x.k = "nan" -> <<N(0)>>
      [] x.k = "neg_inf" -> <<N(0)>>
      [] x.k \in {"inf", "huge"} -> U32MaxText
      [] x.k = "fin" -> IF x.tenths <= 0 THEN <<N(0)>> ELSE <<N(x.tenths \div 10)>>

\* Option::unwrap_or
unwrap_or(o, d) == IF o = <<>> THEN d ELSE o[1]

\* client.rs 62-63: format!("{}_{}", min as u32, max as u32)
price_range(min_price, max_price) ==
    AsU32Text(unwrap_or(min_price, Fin(0))) \o <<X("_")>>
        \o AsU32Text(unwrap_or(max_price, Fin(500000)))

\* discount_range with a minimum of 0 taken as no minimum
discount_range_ZeroIsNone(min_discount) ==
    <<X("FROM_"),
      N(IF min_discount = <<>> \/ min_discount[1] = 0 THEN 5 ELSE min_discount[1])>>

\* client.rs 67: format!("FROM_{}", min_discount.unwrap_or(5))
discount_range(min_discount) == <<X("FROM_"), N(unwrap_or(min_discount, 5))>>

(***************************************************************************)
(* format/mod.rs: the renderers.  A token of a Rust String stands for one  *)
(* character; it takes one byte unless it is one of the characters below,  *)
(* which are named by their code points.                                   *)
(* Output text has tokens of its own: a value padded to a width, a float   *)
(* written with a fixed number of decimals.                                *)
(***************************************************************************)
Ellipsis == X("<U+2026>")
Euro == X("<U+20AC>")
NL == X("\n")
Tab == X("\t")
Sp == X(" ")

\* the UTF-8 length of a character
Utf8Len(ch) ==
    IF ch.c # "raw" THEN 1
    ELSE CASE ch.s \in {"<U+00E9>", "<U+00E3>", "<U+00E7>"} -> 2
           [] ch.s \in {"<U+2026>", "<U+20AC>", "<U+2605>"} -> 3
           [] ch.s \in {"<U+1F525>", "<U+1F4B0>"} -> 4
           [] OTHER -> 1

RECURSIVE ByteLen(_)
\* str::len: the length in bytes
ByteLen(s) == IF s = <<>> THEN 0 ELSE Utf8Len(s[1]) + ByteLen(Tail(s))

\* str::is_char_boundary
IsCharBoundary(s, k) == \E j \in 0..Len(s) : ByteLen(SubSeq(s, 1, j)) = k

\* &s[..k], defined when k is a character boundary of s
SliceTo(s, k) == SubSeq(s, 1, CHOOSE j \in 0..Len(s) : ByteLen(SubSeq(s, 1, j)) = k)

\* the outcome of an evaluation that panics
Panicked == <<[c |-> "panic"]>>

\* mod.rs 190-196 (cap is max); max - 1 overflows when max is 0, and the
\* slice panics when max - 1 is no character boundary
truncate(s, cap) ==
    IF ByteLen(s) <= cap THEN s
    ELSE IF cap = 0 \/ ~IsCharBoundary(s, cap - 1) THEN Panicked
    ELSE SliceTo(s, cap - 1) \o <<Ellipsis>>

\* {:<w}, {:>w}, {:-<w}: text padded with fill to w characters
Pad(text, w, align, fill) ==
    [c |-> "pad", t |-> text, w |-> w, a |-> align, fill |-> fill]

Left(text, w) == Pad(text, w, "<", " ")
Right(text, w) == Pad(text, w, ">", " ")
Rule(w, align) == Pad(<<>>, w, align, "-")

\* {:.p} of a float held in tenths
Fixed(n, p) == [c |-> "fixed", n |-> n, p |-> p]

RECURSIVE Flatten(_)
Flatten(texts) == IF texts = <<>> THEN <<>> ELSE texts[1] \o Flatten(Tail(texts))

RECURSIVE JoinWith(_, _)
\* [String]::join(sep)
JoinWith(texts, sep) ==
    IF texts = <<>> THEN <<>>
    ELSE IF Len(texts) = 1 THEN texts[1]
    ELSE texts[1] \o sep \o JoinWith(Tail(texts), sep)

\* a line of cells separated by one space
Line(cells) ==
    [x \in 1..(2 * Len(cells)) |->
        IF x = 2 * Len(cells) THEN NL
        ELSE IF x % 2 = 1 THEN cells[(x + 1) \div 2]
        ELSE Sp]

\* the head and the rows of a table, unless the rendering of a row panicked
Table(head, rows) ==
    IF \E x \in 1..Len(rows) : rows[x] = Panicked THEN Panicked
    ELSE head \o Flatten(rows)

\* the characters serde_json writes as an escape sequence
Escaped == {Quote, X("\\"), NL, Tab}

\* the JSON string of the Rust string w
SerStr(w) == JStr([x \in 1..Len(w) |-> IF w[x] \in Escaped THEN Esc(w[x]) ELSE w[x]])

RECURSIVE Ser_FieldNames(_, _)
\* Ser with the Rust names of the fields as keys
Ser_FieldNames(ty, v) ==
    CASE ty.k \in IntKinds -> <<N(v)>>
      [] ty.k \in FloatKinds -> <<F(v)>>
      [] ty.k = "String" -> SerStr(v)
      [] ty.k = "bool" -> IF v THEN <<True>> ELSE <<False>>
      [] ty.k = "Option" -> IF v = <<>> THEN <<Null>> ELSE Ser_FieldNames(ty.of, v[1])
      [] ty.k = "Vec" -> JArr([x \in 1..Len(v) |-> Ser_FieldNames(ty.of, v[x])])
      [] ty.k = "struct" ->
            JObj([x \in 1..Len(Fields(ty.name)) |->
                     <<Fields(ty.name)[x].name,
                       Ser_FieldNames(Fields(ty.name)[x].ty, v[Fields(ty.name)[x].name])>>])

RECURSIVE Ser(_, _)
\* serde_json::to_string_pretty of a value of type ty; white space between
\* the tokens of a JSON text is not part of the text model
Ser(ty, v) ==
    CASE ty.k \in IntKinds -> <<N(v)>>
      [] ty.k \in FloatKinds -> <<F(v)>>
      [] ty.k = "String" -> SerStr(v)
      [] ty.k = "bool" -> IF v THEN <<True>> ELSE <<False>>
      [] ty.k = "Option" -> IF v = <<>> THEN <<Null>> ELSE Ser(ty.of, v[1])
      [] ty.k = "Vec" -> JArr([x \in 1..Len(v) |-> Ser(ty.of, v[x])])
      [] ty.k = "struct" ->
            JObj([x \in 1..Len(Fields(ty.name)) |->
                     <<KeyOf(ty.name, Fields(ty.name)[x]),
                       Ser(Fields(ty.name)[x].ty, v[Fields(ty.name)[x].name])>>])

\* mod.rs 50-52
to_json(ty, data) == Ser(ty, data)

\* Option::or
or(a, b) == IF a # <<>> THEN a ELSE b

\* mod.rs 54-85
format_products_table(items) ==
    IF items = <<>> THEN Lit("No products found.")
    ELSE Table(
        Line(<<Left(Lit("ID"), 10), Left(Lit("Name"), 50), Right(Lit("Price"), 10),
               Right(Lit("Stores"), 6), Right(Lit("<U+2605>"), 5)>>)
            \o Line(<<Rule(10, "<"), Rule(50, "<"), Rule(10, ">"), Rule(6, ">"),
                      Rule(5, ">")>>),
        [x \in 1..Len(items) |->
            LET p == items[x]
                name == truncate(p.name, 48)
                rating == IF p.rating = <<>> THEN <<>>
                          ELSE <<Fixed(p.rating[1].rating_count, 1)>>
                badge == IF p.badges.is_best_seller THEN <<Sp, X("<U+1F525>")>>
                         ELSE IF p.badges.is_best_price THEN <<Sp, X("<U+1F4B0>")>>
                         ELSE <<>>
            IN  IF name = Panicked THEN Panicked
                ELSE <<Left(<<N(p.id)>>, 10), Sp, Left(name, 50), Sp,
                       Right(<<Fixed(p.price_min, 2)>>, 9), Euro, Sp,
                       Right(<<N(p.total_offers)>>, 6), Sp, Right(rating, 5)>>
                         \o badge \o <<NL>>])

\* mod.rs 87-93
format_products_compact(items) ==
    JoinWith([x \in 1..Len(items) |->
                 LET p == items[x]
                 IN  <<N(p.id), Tab, Fixed(p.price_min, 2), Euro, Tab,
                       N(p.total_offers), Tab>> \o p.name],
             <<NL>>)

\* table_discount with the Tags value preferred to the Badges value
table_discount_TagsFirst(d) ==
    LET discount == or(d.tags.discount_percentage, d.badges.discount_percentage)
    IN  IF discount = <<>> THEN <<>> ELSE <<X("-"), N(discount[1]), X("%")>>

\* mod.rs 109-114: the discount cell of a row of the deals table
table_discount(d) ==
    LET discount == or(d.badges.discount_percentage, d.tags.discount_percentage)
    IN  IF discount = <<>> THEN <<>> ELSE <<X("-"), N(discount[1]), X("%")>>

\* mod.rs 95-123
format_deals_table(ds) ==
    IF ds = <<>> THEN Lit("No deals found.")
    ELSE Table(
        Line(<<Left(Lit("ID"), 10), Left(Lit("Name"), 45), Right(Lit("Price"), 10),
               Right(Lit("Off"), 5), Right(Lit("Stores"), 6)>>)
            \o Line(<<Rule(10, "<"), Rule(45, "<"), Rule(10, ">"), Rule(5, ">"),
                      Rule(6, ">")>>),
        [x \in 1..Len(ds) |->
            LET d == ds[x]
                name == truncate(d.name, 43)
            IN  IF name = Panicked THEN Panicked
                ELSE <<Left(<<N(d.id)>>, 10), Sp, Left(name, 45), Sp,
                       Right(<<Fixed(d.price_min, 2)>>, 9), Euro, Sp,
                       Right(table_discount(d), 5), Sp,
                       Right(<<N(d.total_offers)>>, 6), NL>>])

\* mod.rs 129: the discount of a line of the compact deals listing
compact_discount(d) ==
    unwrap_or(or(d.badges.discount_percentage, d.tags.discount_percentage), 0)

\* mod.rs 125-134
format_deals_compact(ds) ==
    JoinWith([x \in 1..Len(ds) |->
                 LET d == ds[x]
                 IN  <<N(d.id), Tab, Fixed(d.price_min, 2), Euro, Tab,
                       X("-"), N(compact_discount(d)), X("%"), Tab>> \o d.name],
             <<NL>>)

\* mod.rs 136-151
format_history_table(history) ==
    IF history.data = <<>> THEN Lit("No price history available.")
    ELSE <<X("Price range: "), Fixed(history.min_axis, 2), Euro, X(" - "),
           Fixed(history.max_axis, 2), Euro, NL, NL>>
            \o Line(<<Left(Lit("Date"), 12), Right(Lit("Min"), 10), Right(Lit("Avg"), 10)>>)
            \o Line(<<Rule(12, "<"), Rule(10, ">"), Rule(10, ">")>>)
            \o Flatten([x \in 1..Len(history.data) |->
                   LET point == history.data[x]
                   IN  <<Left(point.date, 12), Sp,
                         Right(<<Fixed(point.min, 2)>>, 9), Euro, Sp,
                         Right(<<Fixed(point.avg, 2)>>, 9), Euro, NL>>])

\* the rows the categories table shows at most (mod.rs 166, 172-173)
TableRows == 50

\* the order of (parent_id, id): None before Some, then by value
KeyBefore(a, b) ==
    IF a.parent_id # b.parent_id
    THEN a.parent_id = <<>> \/ (b.parent_id # <<>> /\ a.parent_id[1] < b.parent_id[1])
    ELSE a.id < b.id

RECURSIVE Insert(_, _)
\* c put into the sorted list after the entries that are not after it
Insert(sorted, c) ==
    IF sorted = <<>> THEN <<c>>
    ELSE IF KeyBefore(c, sorted[1]) THEN <<c>> \o sorted
    ELSE <<sorted[1]>> \o Insert(Tail(sorted), c)

RECURSIVE sort_by_key(_)
\* the stable sort of mod.rs 163-164
sort_by_key(cs) ==
    IF cs = <<>> THEN <<>>
    ELSE Insert(sort_by_key(SubSeq(cs, 1, Len(cs) - 1)), cs[Len(cs)])

\* mod.rs 153-177
format_categories_table(cs) ==
    IF cs = <<>> THEN Lit("No categories found.")
    ELSE LET shown == Take(sort_by_key(cs), TableRows)
             rows == [x \in 1..Len(shown) |->
                        LET c == shown[x]
                            parent == IF c.parent_id = <<>> THEN Lit("-")
                                      ELSE <<N(c.parent_id[1])>>
                            label == truncate(c.label, 38)
                        IN  IF label = Panicked THEN Panicked
                            ELSE Line(<<Left(<<N(c.id)>>, 8), Left(parent, 8),
                                        Left(label, 40), Left(c.slug, 30)>>)]
             trailer == IF Len(cs) > TableRows
                        THEN <<NL, X("... and "), N(Len(cs) - TableRows),
                               X(" more categories"), NL>>
                        ELSE <<>>
         IN  IF Table(<<>>, rows) = Panicked THEN Panicked
             ELSE Line(<<Left(Lit("ID"), 8), Left(Lit("Parent"), 8),
                         Left(Lit("Name"), 40), Left(Lit("Slug"), 30)>>)
                      \o Line(<<Rule(8, "<"), Rule(8, "<"), Rule(40, "<"), Rule(30, "<")>>)
                      \o Table(<<>>, rows) \o trailer

\* mod.rs 179-188
format_categories_compact(cs) ==
    JoinWith([x \in 1..Len(cs) |->
                 LET c == cs[x]
                     parent == IF c.parent_id = <<>> THEN <<>>
                               ELSE <<N(c.parent_id[1])>>
                 IN  <<N(c.id), Tab>> \o parent \o <<Tab>> \o c.label],
             <<NL>>)

\* OutputFormat (mod.rs 8-13)
Formats == {"Table", "Json", "Compact"}

\* mod.rs 16-22
format_products(items, format) ==
    CASE format = "Json" -> to_json(Vec(Struct("Product")), items)
      [] format = "Compact" -> format_products_compact(items)
      [] format = "Table" -> format_products_table(items)

\* mod.rs 25-31
format_deals(ds, format) ==
    CASE format = "Json" -> to_json(Vec(Struct("Deal")), ds)
      [] format = "Compact" -> format_deals_compact(ds)
      [] format = "Table" -> format_deals_table(ds)

\* mod.rs 34-39
format_history(history, format) ==
    IF format = "Json" THEN to_json(Struct("PriceHistory"), history)
    ELSE format_history_table(history)

\* mod.rs 42-48
format_categories(cs, format) ==
    CASE format = "Json" -> to_json(Vec(Struct("Category")), cs)
      [] format = "Compact" -> format_categories_compact(cs)
      [] format = "Table" -> format_categories_table(cs)

(***************************************************************************)
(* commands: a command makes its client call, hands the error of a failed  *)
(* call to its caller (the ? operator) and renders the value of a call     *)
(* that succeeded.  r is what the client call returned.                    *)
(***************************************************************************)
\* what a command leaves when rendering panicked: it does not return
Aborted == [ok |-> FALSE, aborted |-> TRUE]

\* Ok(format!("{header}{body}"))
Rendered(header, body) == IF body = Panicked THEN Aborted ELSE Ok(header \o body)

\* browse with an empty listing shown when the call failed
browse_Fallback(r, format) ==
    IF ~r.ok
    THEN Rendered(<<X("Popular products ("), N(0), X(" total):"), NL, NL>>,
                  format_products(<<>>, format))
    ELSE Rendered(<<X("Popular products ("), N(r.v.total), X(" total):"), NL, NL>>,
                  format_products(r.v.data, format))

\* commands/browse.rs 9-16
browse(r, format) ==
    IF ~r.ok THEN r
    ELSE Rendered(<<X("Popular products ("), N(r.v.total), X(" total):"), NL, NL>>,
                  format_products(r.v.data, format))

\* commands/deals.rs 8-22
deals_command(r, format) ==
    IF ~r.ok THEN r
    ELSE Rendered(<<X("Found "), N(r.v.total), X(" deals:"), NL, NL>>,
                  format_deals(r.v.data, format))

\* commands/history.rs 8-20
history(r, product_id, days, format) ==
    IF ~r.ok THEN r
    ELSE Rendered(<<X("Price history for product "), N(product_id), X(" ("), N(days),
                    X(" days):"), NL, NL>>,
                  format_history(r.v, format))

\* commands/popular.rs 8-20
popular_command(r, category_id, format) ==
    IF ~r.ok THEN r
    ELSE Rendered(<<X("Popular products in category "), N(category_id), X(":"), NL, NL>>,
                  format_products(r.v, format))

\* related with the count taken from the entries it shows
related_command_Recounted(r, product_id, m, format) ==
    IF ~r.ok THEN r
    ELSE Rendered(<<X("Related products for "), N(product_id), X(" ("),
                    N(Len(Take(r.v.data, m))), X(" total):"), NL, NL>>,
                  format_products(Take(r.v.data, m), format))

\* commands/related.rs 8-21
related_command(r, product_id, m, format) ==
    IF ~r.ok THEN r
    ELSE Rendered(<<X("Related products for "), N(product_id), X(" ("), N(r.v.count),
                    X(" total):"), NL, NL>>,
                  format_products(Take(r.v.data, m), format))

\* filtered with the categories without parent shown under every parent
filtered_RootsEverywhere(all_categories, parent) ==
    SelectSeq(all_categories, LAMBDA c : c.parent_id = parent \/ c.parent_id = <<>>)

\* commands/categories.rs 16-21
filtered(all_categories, parent) ==
    SelectSeq(all_categories, LAMBDA c : c.parent_id = parent)

\* commands/categories.rs 8-31
categories_command(r, parent, format) ==
    IF ~r.ok THEN r
    ELSE Rendered(IF parent = <<>> THEN <<X("Top-level categories:"), NL, NL>>
                  ELSE <<X("Subcategories of "), N(parent[1]), X(":"), NL, NL>>,
                  format_categories(filtered(r.v, parent), format))

\* commands/search.rs 8-27
search_command(r, format) ==
    IF ~r.ok THEN r
    ELSE Rendered(<<X("Found "), N(r.v.total), X(" products for "), Quote,
                    X("iphone"), Quote, X(":"), NL, NL>>,
                  format_products(r.v.products, format))

\* main.rs 130-161: the error of a command ends main through the ? operator,
\* the text of a command that returned is printed on a line
main(o) == IF o.ok THEN o.v \o <<NL>> ELSE <<>>

(***************************************************************************)
(* Spec: one invocation of a command; the transport answers its request    *)
(***************************************************************************)
MaxRows == 2    \* rows, days and max range over 1..MaxRows
MaxId == 2      \* product and category ids range over 1..MaxId

Statuses == {200, 204, 404, 500}

NotJson == <<X("invalid"), X("json")>>

\* bodies every typed endpoint may be sent: not JSON, empty, JSON of
\* another shape
StrayBodies == {NotJson, <<>>, JObj(<<>>), <<Null>>, JObj(<< <<"data", <<N(1)>> >> >>)}

Listing(ps, n) == JObj(<< <<"data", JArr(ps)>>, <<"total", <<N(n)>> >> >>)

\* a name of n one-byte characters
Ascii(n) == [x \in 1..n |-> X("a")]

\* a product whose name is longer than a table cell
ProdLong == ProdMin(5, Ascii(49))

\* a product whose long name has a two-byte character across byte 47
ProdWide == ProdMin(6, Ascii(46) \o <<X("<U+00E9>"), X("b"), X("c")>>)

ProductsBodies ==
    {Listing(<<Prod1, ProdFull>>, 2),
     Listing(<<Prod1>>, 100),
     Listing(<<ProdLong>>, 1),
     Listing(<<ProdWide>>, 1),
     JObj(<< <<"data", JArr(<<>>)>> >>)}
        \cup StrayBodies

\* the discountPercentage member of a Badges or Tags object, or no member
Discount(d) == IF d = <<>> THEN <<>> ELSE << <<"discountPercentage", <<N(d[1])>> >> >>

\* a deal with the discounts b on its badges and t on its tags
DealText(id, b, t) ==
    JObj(<< <<"id", <<N(id)>> >>,
            <<"name", JStr(Lit("deal"))>>,
            <<"priceMin", <<F(4999)>> >>,
            <<"badges", JObj(Discount(b))>>,
            <<"tags", JObj(Discount(t))>> >>)

DealsBodies ==
    {Listing(<<DealText(1, <<30>>, <<15>>), DealText(2, <<>>, <<15>>)>>, 40),
     Listing(<<DealText(1, <<30>>, <<>>), DealText(2, <<>>, <<>>)>>, 2),
     Listing(<<DealText(1, <<0>>, <<15>>)>>, 0),
     Listing(<<ProdMin(7, Lit("bare"))>>, 1),
     JObj(<< <<"data", JArr(<<>>)>> >>)}
        \cup StrayBodies

PricePointText(d, avg, min) ==
    JObj(<< <<"date", JStr(Lit(d))>>, <<"avg", <<F(avg)>> >>, <<"min", <<F(min)>> >> >>)

PriceHistoryBodies ==
    {JObj(<< <<"minAxis", <<F(100)>> >>,
             <<"maxAxis", <<F(200)>> >>,
             <<"data", JArr(<<PricePointText("2025-01-01", 150, 120)>>)>> >>),
     JObj(<< <<"minAxis", <<F(100)>> >>, <<"data", JArr(<<>>)>> >>)}
        \cup StrayBodies

PopularBodies == {JArr(<<Prod1, Prod2>>), JArr(<<>>), JArr(<< <<Null>> >>)} \cup StrayBodies

RelatedBodies ==
    {JObj(<< <<"data", JArr(<<Prod1>>)>>, <<"count", <<N(1)>> >> >>),
     JObj(<< <<"data", JArr(<<Prod1, Prod2, ProdFull>>)>>, <<"count", <<N(7)>> >> >>),
     JObj(<< <<"count", <<N(1)>> >> >>)}
        \cup StrayBodies

CategoryText(id, label) ==
    JObj(<< <<"id", <<N(id)>> >>,
            <<"label", JStr(Lit(label))>>,
            <<"slug", JStr(Lit(label))>> >>)

\* a category with a parentId member: an id or null
ChildText(id, parent, label) ==
    JObj(<< <<"id", <<N(id)>> >>,
            <<"parentId", parent>>,
            <<"label", JStr(Lit(label))>>,
            <<"slug", JStr(Lit(label))>> >>)

CategoriesBodies ==
    {JArr(<<CategoryText(1, "Electronics"), CategoryText(2, "Phones")>>),
     JArr(<<ChildText(4, <<N(2)>>, "Cases"), CategoryText(1, "Electronics"),
            ChildText(3, <<N(1)>>, "Phones"), ChildText(2, <<Null>>, "Home"),
            ChildText(5, <<N(1)>>, "Audio"), ChildText(6, <<N(9)>>, "Stray")>>),
     JArr(<<>>),
     JArr(<<JObj(<< <<"id", <<N(1)>> >> >>)>>)}
        \cup StrayBodies

SearchBodies ==
    {Page(SearchDoc(<<Prod1, Prod2>>, 100)),
     Page(NotJson),
     Page(Nest("ok", "ok", "missing", <<>>)),
     BlockMarker,
     StartMarker \o SearchDoc(<<Prod1>>, 1),
     <<X("No"), X("data"), X("here")>>,
     <<>>}

\* what the transport may do with a request whose answer has one of bodies
Nets(bodies) ==
    {SendFailure}
        \cup {Response(st, <<>>) : st \in Statuses}
        \cup {Response(st, <<b>>) : st \in Statuses, b \in bodies}

Rows == 1..MaxRows
Ids == 1..MaxId

MinDiscounts == {<<>>, <<0>>, <<5>>, <<100>>}
MinPrices ==
    {<<>>, <<Fin(0)>>, <<Fin(100)>>, <<Fin(105)>>, <<Fin(999)>>, <<Fin(0 - 5)>>,
     <<Fin(0 - 10)>>, <<Fin(20000)>>, <<Huge>>, <<NaN>>, <<NegInf>>}
MaxPrices == {<<>>, <<Fin(0 - 25)>>, <<Fin(1000)>>, <<Fin(9999)>>, <<Huge>>, <<Inf>>}
Parents == {<<>>} \cup {<<p>> : p \in Ids}

Init ==
    /\ IdleParse
    /\ IdleDecode
    /\ IdleClient
    /\ IdleFormat
    /\ pc = "ready"

\* the request a call sends: its endpoint, path and query pairs
Request(e, path, query) == [endpoint |-> e, path |-> path, query |-> query]

\* commands/browse.rs: client.products(max)
Browse ==
    \E m \in Rows, format \in Formats, net \in Nets(ProductsBodies) :
        /\ pc = "ready"
        /\ args' = <<[command |-> "browse", max |-> m, format |-> format]>>
        /\ call' = <<Request("products", <<X("/products")>>,
                           << <<"rows", <<N(m)>> >> >>)>>
        /\ resp' = <<net>>
        /\ result' = <<products(net)>>
        /\ requests' = requests + 1
        /\ output' = <<browse(result'[1], format)>>
        /\ stdout' = main(output'[1])
        /\ pc' = "done"
        /\ UNCHANGED <<html, max, json_str, search_result, doc, target, decoded,
                       given, rendered>>

\* Deals with a filter parameter sent only when the caller gives the filter
Deals_FiltersOptional ==
    \E m \in {MaxRows}, page \in {1}, min_discount \in MinDiscounts,
       min_price \in MinPrices, max_price \in MaxPrices,
       format \in Formats, net \in Nets(DealsBodies) :
        /\ pc = "ready"
        /\ \/ min_discount = <<>> /\ min_price = <<>> /\ max_price = <<>>
           \/ net = Response(200, <<JObj(<< <<"data", JArr(<<>>)>> >>)>>) /\ format = "Table"
        /\ args' = <<[command |-> "deals", max |-> m, min_discount |-> min_discount,
                      min_price |-> min_price, max_price |-> max_price,
                      format |-> format]>>
        /\ call' = <<Request("deals", <<X("/deals")>>,
                           (IF min_price = <<>> /\ max_price = <<>> THEN <<>>
                            ELSE << <<"priceRange", price_range(min_price, max_price)>> >>)
                           \o (IF min_discount = <<>> THEN <<>>
                               ELSE << <<"discountRange", discount_range(min_discount)>> >>)
                           \o << <<"rows", <<N(m)>> >>, <<"page", <<N(page)>> >> >>)>>
        /\ resp' = <<net>>
        /\ result' = <<deals(net)>>
        /\ requests' = requests + 1
        /\ output' = <<deals_command(result'[1], format)>>
        /\ stdout' = main(output'[1])
        /\ pc' = "done"
        /\ UNCHANGED <<html, max, json_str, search_result, doc, target, decoded,
                       given, rendered>>

\* commands/deals.rs: client.deals(max, 1, min_discount, min_price, max_price).
\* The filters and the answer are independent; the filters are enumerated
\* against one answer, the answers against the call without filters.
Deals ==
    \E m \in {MaxRows}, page \in {1}, min_discount \in MinDiscounts,
       min_price \in MinPrices, max_price \in MaxPrices,
       format \in Formats, net \in Nets(DealsBodies) :
        /\ pc = "ready"
        /\ \/ min_discount = <<>> /\ min_price = <<>> /\ max_price = <<>>
           \/ net = Response(200, <<JObj(<< <<"data", JArr(<<>>)>> >>)>>) /\ format = "Table"
        /\ args' = <<[command |-> "deals", max |-> m, min_discount |-> min_discount,
                      min_price |-> min_price, max_price |-> max_price,
                      format |-> format]>>
        /\ call' = <<Request("deals", <<X("/deals")>>,
                           << <<"priceRange", price_range(min_price, max_price)>>,
                           <<"discountRange", discount_range(min_discount)>>,
                           <<"rows", <<N(m)>> >>,
                           <<"page", <<N(page)>> >> >>)>>
        /\ resp' = <<net>>
        /\ result' = <<deals(net)>>
        /\ requests' = requests + 1
        /\ output' = <<deals_command(result'[1], format)>>
        /\ stdout' = main(output'[1])
        /\ pc' = "done"
        /\ UNCHANGED <<html, max, json_str, search_result, doc, target, decoded,
                       given, rendered>>

\* commands/history.rs: client.price_history(product_id, days)
History ==
    \E product_id \in Ids, days \in Rows, format \in Formats,
       net \in Nets(PriceHistoryBodies) :
        /\ pc = "ready"
        /\ args' = <<[command |-> "history", product_id |-> product_id, days |-> days,
                      format |-> format]>>
        /\ call' = <<Request("price_history",
                           <<X("/products/"), N(product_id), X("/price-history")>>,
                           << <<"days", <<N(days)>> >> >>)>>
        /\ resp' = <<net>>
        /\ result' = <<price_history(net)>>
        /\ requests' = requests + 1
        /\ output' = <<history(result'[1], product_id, days, format)>>
        /\ stdout' = main(output'[1])
        /\ pc' = "done"
        /\ UNCHANGED <<html, max, json_str, search_result, doc, target, decoded,
                       given, rendered>>

\* commands/popular.rs: client.popular(category_id, max)
Popular ==
    \E category_id \in Ids, m \in Rows, format \in Formats, net \in Nets(PopularBodies) :
        /\ pc = "ready"
        /\ args' = <<[command |-> "popular", category_id |-> category_id, max |-> m,
                      format |-> format]>>
        /\ call' = <<Request("popular", <<X("/products/popular")>>,
                           << <<"categoryId", <<N(category_id)>> >>,
                           <<"rows", <<N(m)>> >> >>)>>
        /\ resp' = <<net>>
        /\ result' = <<popular(net)>>
        /\ requests' = requests + 1
        /\ output' = <<popular_command(result'[1], category_id, format)>>
        /\ stdout' = main(output'[1])
        /\ pc' = "done"
        /\ UNCHANGED <<html, max, json_str, search_result, doc, target, decoded,
                       given, rendered>>

\* commands/related.rs: client.related(product_id)
Related ==
    \E product_id \in Ids, m \in Rows, format \in Formats, net \in Nets(RelatedBodies) :
        /\ pc = "ready"
        /\ args' = <<[command |-> "related", product_id |-> product_id, max |-> m,
                      format |-> format]>>
        /\ call' = <<Request("related",
                           <<X("/products/"), N(product_id), X("/related")>>, <<>>)>>
        /\ resp' = <<net>>
        /\ result' = <<related(net)>>
        /\ requests' = requests + 1
        /\ output' = <<related_command(result'[1], product_id, m, format)>>
        /\ stdout' = main(output'[1])
        /\ pc' = "done"
        /\ UNCHANGED <<html, max, json_str, search_result, doc, target, decoded,
                       given, rendered>>

\* commands/categories.rs: client.categories()
Categories ==
    \E parent \in Parents, format \in Formats, net \in Nets(CategoriesBodies) :
        /\ pc = "ready"
        /\ args' = <<[command |-> "categories", parent |-> parent, format |-> format]>>
        /\ call' = <<Request("categories", <<X("/categories")>>, <<>>)>>
        /\ resp' = <<net>>
        /\ result' = <<categories(net)>>
        /\ requests' = requests + 1
        /\ output' = <<categories_command(result'[1], parent, format)>>
        /\ stdout' = main(output'[1])
        /\ pc' = "done"
        /\ UNCHANGED <<html, max, json_str, search_result, doc, target, decoded,
                       given, rendered>>

\* Search with the page fetched a second time when the request cannot be sent
Search_Retrying ==
    \E m \in 0..MaxCap, format \in Formats, net \in Nets(SearchBodies) \cup {BuildFailure} :
        /\ pc = "ready"
        /\ args' = <<[command |-> "search", query |-> Lit("iphone"), max |-> m,
                      format |-> format]>>
        /\ call' = <<Request("search", <<X("/search")>>,
                           << <<"q", Lit("iphone")>> >>)>>
        /\ resp' = <<net>>
        /\ result' = <<search_with_base_url(m, net)>>
        /\ requests' = IF net.k = "build" THEN requests
                       ELSE IF net.k = "error" THEN requests + 2
                       ELSE requests + 1
        /\ output' = <<search_command(result'[1], format)>>
        /\ stdout' = main(output'[1])
        /\ pc' = "done"
        /\ UNCHANGED <<html, max, json_str, search_result, doc, target, decoded,
                       given, rendered>>

\* commands/search.rs: client.search(query, max).  search sends its request
\* through a client of its own; when that client cannot be built, nothing is
\* sent
Search ==
    \E m \in 0..MaxCap, format \in Formats, net \in Nets(SearchBodies) \cup {BuildFailure} :
        /\ pc = "ready"
        /\ args' = <<[command |-> "search", query |-> Lit("iphone"), max |-> m,
                      format |-> format]>>
        /\ call' = <<Request("search", <<X("/search")>>,
                           << <<"q", Lit("iphone")>> >>)>>
        /\ resp' = <<net>>
        /\ result' = <<search_with_base_url(m, net)>>
        /\ requests' = IF net.k = "build" THEN requests ELSE requests + 1
        /\ output' = <<search_command(result'[1], format)>>
        /\ stdout' = main(output'[1])
        /\ pc' = "done"
        /\ UNCHANGED <<html, max, json_str, search_result, doc, target, decoded,
                       given, rendered>>

Next ==
    \/ Browse
    \/ Deals
    \/ History
    \/ Popular
    \/ Related
    \/ Categories
    \/ Search

Spec == Init /\ [][Next]_vars

(***************************************************************************)
(* Properties of the client calls (Spec)                                   *)
(***************************************************************************)
\* StatusCode::is_success
IsSuccess(st) == st \in 200..299

Answered == Done /\ resp # <<>> /\ resp[1].k = "response"

\* C3: for every endpoint call, a response with a non-success status makes
\* the call return an error, whatever the body of the response holds.
C3_NonSuccessIsError ==
    (Answered /\ ~IsSuccess(resp[1].status)) => ~result[1].ok

TypedEndpoints ==
    {"products", "deals", "price_history", "popular", "related", "categories"}

\* what the call to typed endpoint e returns when the transport answers net
Report(e, net) ==
    CASE e = "products" -> products(net)
      [] e = "deals" -> deals(net)
      [] e = "price_history" -> price_history(net)
      [] e = "popular" -> popular(net)
      [] e = "related" -> related(net)
      [] e = "categories" -> categories(net)

\* the transport failures: the request cannot be sent, the response cannot
\* be read to its end, the response has a non-success status
TransportFailures ==
    {SendFailure, Response(200, <<>>), Response(500, <<NotJson>>)}

\* the request was answered with success and the body was read, and the
\* body did not decode
DecodeFailed ==
    /\ Answered
    /\ IsSuccess(resp[1].status)
    /\ resp[1].body # <<>>
    /\ ~result[1].ok

\* C7: at every typed endpoint, the error of a body that does not decode is
\* of another kind (carries another message) than the error of any
\* transport failure at that endpoint.
C7_DecodeIsNotTransport ==
    (DecodeFailed /\ call[1].endpoint \in TypedEndpoints)
        => \A net \in TransportFailures :
              Report(call[1].endpoint, net).msg # result[1].msg

(***************************************************************************)
(* SpecDecode: serde_json::from_str applied to one text                    *)
(***************************************************************************)
\* the optional fields of Product, each with a value of its type
ProductOptionals ==
    << <<"brand", JStr(Lit("Apple"))>>,
       <<"category", JStr(Lit("Phones"))>>,
       <<"priceMin", <<F(9999)>> >>,
       <<"totalOffers", <<N(10)>> >>,
       <<"url", JStr(Lit("/p/1"))>>,
       <<"images", JArr(<<JStr(Lit("a.jpg"))>>)>>,
       <<"badges", JObj(<< <<"isBestSeller", <<True>> >> >>)>>,
       <<"rating", JObj(<< <<"ratingCount", <<F(45)>> >>,
                           <<"reviewsCount", <<N(7)>> >> >>)>>,
       <<"tags", JObj(<< <<"adultOnly", <<True>> >>,
                         <<"discountPercentage", <<N(20)>> >> >>)>> >>

RECURSIVE Pick(_, _)
\* the members of ms whose key is in keys, in the order of ms
Pick(ms, keys) ==
    IF ms = <<>> THEN <<>>
    ELSE IF ms[1][1] \in keys THEN <<ms[1]>> \o Pick(Tail(ms), keys)
    ELSE Pick(Tail(ms), keys)

Keys(ms) == {ms[x][1] : x \in 1..Len(ms)}

ProductRequired == << <<"id", <<N(1)>> >>, <<"name", JStr(Lit("a"))>> >>

\* id, name and the optional fields named by keys
ProductWith(keys) == JObj(ProductRequired \o Pick(ProductOptionals, keys))

ProductDocs == {ProductWith(keys) : keys \in SUBSET Keys(ProductOptionals)}

\* the members a value of struct n cannot do without, each with a value
RequiredMembers(n) ==
    CASE n \in {"Product", "Deal"} -> ProductRequired
      [] n = "Category" ->
            << <<"id", <<N(1)>> >>,
               <<"label", JStr(Lit("a"))>>,
               <<"slug", JStr(Lit("a"))>> >>
      [] n = "PriceHistory" ->
            << <<"minAxis", <<F(100)>> >>,
               <<"maxAxis", <<F(200)>> >>,
               <<"data", JArr(<<PricePointText("2025-01-01", 150, 120)>>)>> >>
      [] OTHER -> <<>>

ModelTypes == {"Product", "Deal", "Badges", "Tags", "Rating", "Category"}

\* the positions of the fields of struct n that have #[serde(default)]
Optionals(n) == {x \in 1..Len(Fields(n)) : Fields(n)[x].dflt}

\* a value of struct n with nothing but its required members
Minimal(n) == JObj(RequiredMembers(n))

\* the same with optional field x present and null
WithNull(n, x) ==
    JObj(RequiredMembers(n) \o << <<KeyOf(n, Fields(n)[x]), <<Null>> >> >>)

\* a value of struct n with its first k required members only
Lacking(n, k) == JObj(SubSeq(RequiredMembers(n), 1, k))

\* the types that have required fields
RequiredTypes == {"Product", "PriceHistory", "Category"}

\* JSON values that are no value of type ty
WrongValues(ty) ==
    CASE ty.k = "u64" ->
            {<<Null>>, JStr(Lit("1")), <<True>>, <<F(15)>>, <<N(0 - 1)>>,
             JObj(<<>>), JArr(<<>>)}
      [] ty.k = "String" -> {<<Null>>, <<N(1)>>, <<False>>, JObj(<<>>), JArr(<<>>)}
      [] ty.k = "f64" -> {<<Null>>, JStr(Lit("1.5")), <<True>>, JObj(<<>>), JArr(<<>>)}
      [] ty.k = "Vec" -> {<<Null>>, <<N(1)>>, JStr(Lit("a")), <<True>>, JObj(<<>>)}

\* other ways of writing a value of type ty
OtherValues(ty) ==
    CASE ty.k = "u64" -> {<<N(0)>>}
      [] ty.k = "String" -> {JStr(<<>>), JStr(<<N(1)>>)}
      [] ty.k = "f64" -> {<<N(100)>>, <<F(0 - 15)>>}
      [] ty.k = "Vec" -> {JArr(<<>>)}

\* the position in Fields(n) of the x-th required member of struct n
RequiredField(n, x) == FieldByKey(n, Lit(RequiredMembers(n)[x][1]))

\* ms without its x-th member
Without(ms, x) == SubSeq(ms, 1, x - 1) \o SubSeq(ms, x + 1, Len(ms))

\* ms with the value of its x-th member replaced by v
Replaced(ms, x, v) ==
    [y \in 1..Len(ms) |-> IF y = x THEN <<ms[x][1], v>> ELSE ms[y]]

\* members no struct of the model has
UnknownMembers ==
    << <<"extra", <<Null>> >>,
       <<"x-meta", JObj(<< <<"id", JStr(Lit("z"))>>, <<"list", JArr(<< <<N(1)>> >>)>> >>)>>,
       <<"Id", JStr(Lit("7"))>> >>

\* texts for struct n: a required member left out or given a value, and
\* unknown members put before and after the required ones
RequiredDocs(n) ==
    LET ms == RequiredMembers(n)
    IN  {JObj(Without(ms, x)) : x \in 1..Len(ms)}
            \cup UNION {{JObj(Replaced(ms, x, v)) :
                            v \in WrongValues(Fields(n)[RequiredField(n, x)].ty)
                                  \cup OtherValues(Fields(n)[RequiredField(n, x)].ty)} :
                        x \in 1..Len(ms)}
            \cup {JObj(SubSeq(UnknownMembers, 1, k) \o ms
                           \o SubSeq(UnknownMembers, k + 1, Len(UnknownMembers))) :
                     k \in 0..Len(UnknownMembers)}
            \cup UNION {{JObj(<<UnknownMembers[1]>> \o Without(ms, x)),
                         JObj(Without(ms, x) \o <<UnknownMembers[3]>>)} :
                        x \in 1..Len(ms)}

\* discountPercentage values on the wire, in and out of 0..100 and of u8
WireDiscounts == {0 - 1, 0, 50, 100, 101, 200, 255, 256}

\* category values on the wire: a string, a number, null
WireCategories == {JStr(Lit("Phones")), <<N(5)>>, <<Null>>}

DecodeInputs ==
    {<<"Product", d>> : d \in ProductDocs}
        \cup {<<"Deal", ProductWith(keys)>> : keys \in SUBSET {"brand", "priceMin", "category"}}
        \cup {<<n, Minimal(n)>> : n \in ModelTypes}
        \cup UNION {{<<n, WithNull(n, x)>> : x \in Optionals(n)} : n \in ModelTypes}
        \cup UNION {{<<n, Lacking(n, k)>> : k \in 0..Len(RequiredMembers(n))} :
                       n \in ModelTypes}
        \cup {<<n, NotJson>> : n \in ModelTypes}
        \cup UNION {{<<n, d>> : d \in RequiredDocs(n)} : n \in RequiredTypes}
        \cup {<<n, JObj(Discount(<<d>>))>> : n \in {"Badges", "Tags"}, d \in WireDiscounts}
        \cup {<<n, JObj(ProductRequired \o << <<"category", v>> >>)>> :
                 n \in {"Product", "Deal"}, v \in WireCategories}

InitDecode ==
    /\ \E input \in DecodeInputs : target = input[1] /\ doc = input[2]
    /\ decoded = <<>>
    /\ pc = "ready"
    /\ IdleParse
    /\ IdleClient
    /\ IdleFormat

Decode ==
    /\ pc = "ready"
    /\ decoded' = <<from_str(Struct(target), doc)>>
    /\ pc' = "done"
    /\ UNCHANGED <<html, max, json_str, search_result, doc, target, call, resp,
                   result, requests, args, output, stdout, given, rendered>>

NextDecode == Decode

SpecDecode == InitDecode /\ [][NextDecode]_vars

(***************************************************************************)
(* Properties of the response model (SpecDecode)                           *)
(***************************************************************************)
\* the documented default of every optional field of Product
DocumentedDefaults ==
    [brand |-> <<>>,
     category |-> <<>>,
     price_min |-> 0,
     total_offers |-> 0,
     url |-> <<>>,
     images |-> <<>>,
     rating |-> <<>>,
     badges |-> [is_best_seller |-> FALSE,
                 is_best_price |-> FALSE,
                 is_customers_favorite |-> FALSE,
                 discount_percentage |-> <<>>],
     tags |-> [is_marketplace |-> FALSE,
               adult_only |-> FALSE,
               has_split_payment |-> FALSE,
               discount_percentage |-> <<>>]]

\* C9: every Product object that carries id, name and any subset of the
\* optional fields decodes, and each optional field that is absent has its
\* documented default.
C9_AbsentTakesDefault ==
    (Done /\ target = "Product" /\ doc \in ProductDocs)
        => /\ decoded[1].ok
           /\ decoded[1].v.id = 1
           /\ decoded[1].v.name = Lit("a")
           /\ \A f \in DOMAIN DocumentedDefaults :
                 ~HasOne(JsonAt(doc, 1).v, CamelCase(f))
                    => decoded[1].v[f] = DocumentedDefaults[f]

\* a Product with id and name alone, and one with brand alone left out
C9_Witness ==
    /\ Done
    /\ target = "Product"
    /\ doc = ProductWith(Keys(ProductOptionals) \ {"brand"})
    /\ decoded[1].ok
    /\ decoded[1].v.brand = <<>>
    /\ decoded[1].v.price_min = 9999

\* C10: for every optional field of Product, Deal, Badges, Tags, Rating and
\* Category, a value with that field null decodes exactly as the value
\* without the field does, the field taking its default.
C10_NullIsAbsent ==
    (Done /\ target \in ModelTypes)
        => \A x \in Optionals(target) :
              doc = WithNull(target, x)
                 => /\ decoded[1].ok
                    /\ decoded[1].v = from_str(Struct(target), Minimal(target)).v


\* the required fields: their JSON keys and what their values must be
RequiredOf(n) ==
    CASE n = "Product" -> {<<"id", "uint">>, <<"name", "str">>}
      [] n = "PriceHistory" ->
            {<<"minAxis", "num">>, <<"maxAxis", "num">>, <<"data", "points">>}
      [] n = "Category" -> {<<"id", "uint">>, <<"label", "str">>, <<"slug", "str">>}

Missing(v, key) == \A x \in 1..Len(v.m) : v.m[x].k # Lit(key)

\* v is of another JSON type than the field's
WrongType(kind, v) ==
    CASE kind = "uint" -> ~IsUInt(v)
      [] kind = "str" -> v.t # "str"
      [] kind = "num" -> v.t # "num"
      [] kind = "points" -> v.t # "arr"

IsPoint(v) ==
    /\ HasOne(v, "date") /\ Get(v, "date").t = "str"
    /\ HasOne(v, "avg") /\ Get(v, "avg").t = "num"
    /\ HasOne(v, "min") /\ Get(v, "min").t = "num"

WellTyped(kind, v) ==
    /\ ~WrongType(kind, v)
    /\ kind = "points" => \A x \in 1..Len(v.a) : IsPoint(v.a[x])

\* the text is a JSON object
IsObject(text) == JsonAt(text, 1).ok /\ IsJson(text) /\ JsonAt(text, 1).v.t = "obj"

\* C11: an object that lacks a required field of Product, PriceHistory or
\* Category, or holds it with a value of the wrong type, does not decode and
\* yields no value; an object that holds every required field well typed
\* decodes whatever unknown fields it holds besides.
C11_RequiredOrFail ==
    (Done /\ target \in RequiredTypes /\ IsObject(doc)) =>
        LET v == JsonAt(doc, 1).v
            known == {Lit(KeyOf(target, Fields(target)[x])) :
                         x \in 1..Len(Fields(target))}
            required == {Lit(r[1]) : r \in RequiredOf(target)}
        IN  /\ (\E r \in RequiredOf(target) :
                    Missing(v, r[1]) \/ (HasOne(v, r[1]) /\ WrongType(r[2], Get(v, r[1]))))
                  => (~decoded[1].ok /\ decoded[1].v = <<>>)
            /\ (/\ \A r \in RequiredOf(target) :
                       HasOne(v, r[1]) /\ WellTyped(r[2], Get(v, r[1]))
                /\ \A x \in 1..Len(v.m) : v.m[x].k \in known => v.m[x].k \in required)
                  => decoded[1].ok

\* a PriceHistory that lacks maxAxis next to an unknown field does not decode
C11_Witness ==
    /\ Done
    /\ target = "PriceHistory"
    /\ IsObject(doc)
    /\ Missing(JsonAt(doc, 1).v, "maxAxis")
    /\ ~Missing(JsonAt(doc, 1).v, "extra")
    /\ ~decoded[1].ok
    /\ decoded[1].e[1].code = "missing field"


(***************************************************************************)
(* Properties of the deals request (Spec)                                  *)
(***************************************************************************)
DealsCalled == Done /\ args # <<>> /\ args[1].command = "deals"

\* the value of query parameter key of the request, when it occurs once
Param(key) ==
    LET q == call[1].query
    IN  q[CHOOSE x \in 1..Len(q) : q[x][1] = key][2]

\* the truncation toward zero of a finite number held in tenths
Trunc(tenths) == IF tenths >= 0 THEN tenths \div 10 ELSE 0 - ((0 - tenths) \div 10)

Finite(bound) == bound = <<>> \/ bound[1].k = "fin"

\* the price bound written as its truncation, 0.0 or 50000.0 when absent
Truncated(bound, tenths) == N(Trunc(IF bound = <<>> THEN tenths ELSE bound[1].tenths))

\* C12 as stated: the price-range token is trunc(min or 0), '_',
\* trunc(max or 50000) for every pair of (finite) bounds.
C12_PriceRange_AsClaimed ==
    (DealsCalled /\ Finite(args[1].min_price) /\ Finite(args[1].max_price))
        => Param("priceRange")
              = <<Truncated(args[1].min_price, 0), X("_"),
                  Truncated(args[1].max_price, 500000)>>

\* the bounds whose truncation is a u32: above -1 and not beyond u32::MAX
InU32(bound) == bound = <<>> \/ (bound[1].k = "fin" /\ bound[1].tenths > 0 - 10)

\* C12 (amended): for price bounds whose truncation lies in 0..2^32-1 the
\* price-range token is trunc(min or 0), '_', trunc(max or 50000), each bound
\* truncated toward zero and never rounded; a bound of -1 or less is written
\* as 0, not as its truncation.
C12_PriceRange ==
    DealsCalled =>
        /\ (InU32(args[1].min_price) /\ InU32(args[1].max_price))
              => Param("priceRange")
                    = <<Truncated(args[1].min_price, 0), X("_"),
                        Truncated(args[1].max_price, 500000)>>
        /\ (Finite(args[1].min_price) /\ ~InU32(args[1].min_price))
              => Param("priceRange")[1] = N(0)

\* a deals call with the bounds 99.9 and 100.0
C12_Witness ==
    /\ DealsCalled
    /\ args[1].min_price = <<Fin(999)>>
    /\ args[1].max_price = <<Fin(1000)>>
    /\ Param("priceRange") = <<N(99), X("_"), N(100)>>

\* C13: the discount token of a deals request is FROM_ followed by the
\* caller's minimum discount, FROM_5 when none is given; a minimum of 0 gives
\* FROM_0.
C13_DiscountToken ==
    DealsCalled =>
        /\ args[1].min_discount = <<>> => Param("discountRange") = <<X("FROM_"), N(5)>>
        /\ args[1].min_discount # <<>>
              => Param("discountRange") = <<X("FROM_"), N(args[1].min_discount[1])>>

\* a deals call with the minimum discount 0
C13_Witness ==
    /\ DealsCalled
    /\ args[1].min_discount = <<0>>
    /\ Param("discountRange") = <<X("FROM_"), N(0)>>

(***************************************************************************)
(* Properties of the commands (Spec)                                       *)
(***************************************************************************)
Invoked == Done /\ args # <<>>

Command(names) == Invoked /\ args[1].command \in names

\* the client of search could not be built
Unbuilt == resp[1].k = "build"

\* C14 as stated: every command invocation issues exactly one outbound
\* request.
C14_OneRequest_AsClaimed == Invoked => requests = 1

\* C14 (amended): every command invocation issues at most one outbound
\* request, whether the request fails or the body does not decode: exactly
\* one, unless search cannot build its HTTP client, and then none.
C14_OneRequest ==
    Invoked =>
        /\ requests <= 1
        /\ requests = 0 <=> (args[1].command = "search" /\ Unbuilt)

\* a request that could not be sent, and was sent once
C14_Witness ==
    /\ Invoked
    /\ resp[1] = SendFailure
    /\ ~result[1].ok
    /\ requests = 1

\* what a command returned is an error
IsError(o) == ~o.ok /\ "msg" \in DOMAIN o

\* C15: a command returns an error if and only if its client call failed;
\* the error is the error of the call, and nothing is printed: no header, no
\* partial listing, no fallback value.
C15_FailureIsReturned ==
    Invoked =>
        /\ IsError(output[1]) <=> ~result[1].ok
        /\ ~result[1].ok => (output[1] = result[1] /\ stdout = <<>>)

\* a body that did not decode, behind a success status
C15_Witness ==
    /\ Invoked
    /\ DecodeFailed
    /\ IsError(output[1])
    /\ output[1].msg = result[1].msg
    /\ stdout = <<>>

\* the effective discount of deal d: Badges, else Tags, else none
Effective(d) ==
    IF d.badges.discount_percentage # <<>> THEN d.badges.discount_percentage
    ELSE IF d.tags.discount_percentage # <<>> THEN d.tags.discount_percentage
    ELSE <<>>

\* the deals of a deals call that succeeded
DealsShown == IF Command({"deals"}) /\ result[1].ok THEN result[1].v.data ELSE <<>>

\* the discount cell the table shows for an effective discount
TableCell(e) == Right(IF e = <<>> THEN <<>> ELSE <<X("-"), N(e[1]), X("%")>>, 5)

\* the discount the compact listing shows for an effective discount
CompactCell(e) == <<X("-"), N(IF e = <<>> THEN 0 ELSE e[1]), X("%"), Tab>>

\* C16: for every deal the renderers show the Badges discount when it is
\* present, else the Tags discount when that is present, else no discount
\* (an empty table cell, 0 in the compact listing); the resolution never
\* fails and Badges wins over Tags.
C16_EffectiveDiscount ==
    \A x \in 1..Len(DealsShown) :
        /\ output[1].ok
        /\ table_discount(DealsShown[x]) = TableCell(Effective(DealsShown[x])).t
        /\ compact_discount(DealsShown[x]) = CompactCell(Effective(DealsShown[x]))[2].n
        /\ args[1].format = "Table"
              => \E k \in 1..(Len(stdout) - 7) :
                        /\ stdout[k] = Left(<<N(DealsShown[x].id)>>, 10)
                        /\ stdout[k + 7] = TableCell(Effective(DealsShown[x]))
        /\ args[1].format = "Compact"
              => \E k \in 1..(Len(stdout) - 8) :
                        /\ stdout[k] = N(DealsShown[x].id)
                        /\ SubSeq(stdout, k + 5, k + 8)
                              = CompactCell(Effective(DealsShown[x]))

\* a table that shows 30 for a deal with 30 on Badges and 15 on Tags, and 15
\* for a deal with 15 on Tags only
C16_Witness ==
    /\ Len(DealsShown) = 2
    /\ args[1].format = "Table"
    /\ DealsShown[1].badges.discount_percentage = <<30>>
    /\ DealsShown[1].tags.discount_percentage = <<15>>
    /\ DealsShown[2].badges.discount_percentage = <<>>
    /\ DealsShown[2].tags.discount_percentage = <<15>>
    /\ Contains(stdout, <<TableCell(<<30>>)>>)
    /\ Contains(stdout, <<TableCell(<<15>>)>>)

\* the envelope of the response, read as a JSON value
Envelope == JsonAt(resp[1].body[1], 1).v

\* the member of the envelope a command reports, and where its header has it
Reported == IF args[1].command = "related" THEN <<"count", 4>> ELSE <<"total", 2>>

\* C17: the total (count) that browse, deals and related report is the
\* envelope's total (count) as it came; it is not recounted from data nor
\* changed by the max cap.
C17_TotalPassedThrough ==
    (Command({"browse", "deals", "related"}) /\ output[1].ok
        /\ HasOne(Envelope, Reported[1]))
        => output[1].v[Reported[2]] = Get(Envelope, Reported[1]).tok

\* related with max 1 on a response of three entries and count 7
C17_Witness ==
    /\ Command({"related"})
    /\ output[1].ok
    /\ args[1].max = 1
    /\ Len(result[1].v.data) = 3
    /\ HasOne(Envelope, "count")
    /\ output[1].v[4] = N(7)

\* the parent of a category of the response: none when parentId is absent
\* or null
WireParent(c) ==
    IF Missing(c, "parentId") \/ Get(c, "parentId").t = "lit" THEN <<>>
    ELSE <<Get(c, "parentId").tok.n>>

\* the ids of the categories of the response whose parent is parent
WireIds(parent) ==
    {Get(Envelope.a[x], "id").tok.n :
        x \in {y \in 1..Len(Envelope.a) : WireParent(Envelope.a[y]) = parent}}

\* the listing of the output: what follows the header
Listing_(out) == SubSeq(out, IF args[1].parent = <<>> THEN 4 ELSE 6, Len(out))

\* the ids of the categories a listing shows: the id members of the JSON
\* array, or the first cell of each line that starts with a number
ShownIds(listing) ==
    IF args[1].format = "Json"
    THEN {Get(JsonAt(listing, 1).v.a[x], "id").tok.n :
             x \in 1..Len(JsonAt(listing, 1).v.a)}
    ELSE {IF listing[k].c = "num" THEN listing[k].n ELSE listing[k].t[1].n :
             k \in {j \in 1..Len(listing) :
                       /\ j = 1 \/ listing[j - 1] = NL
                       /\ \/ listing[j].c = "num"
                          \/ /\ listing[j].c = "pad"
                             /\ listing[j].t # <<>>
                             /\ listing[j].t[1].c = "num"}}

\* C18: the categories command with no parent shows exactly the categories
\* whose parentId is absent or null, and with parent p exactly those whose
\* parentId is p; none is shown under a parent it does not have.
C18_FilterByParent ==
    (Command({"categories"}) /\ output[1].ok) =>
        ShownIds(Listing_(output[1].v)) = WireIds(args[1].parent)

\* the children of 1 in a response that holds roots, children of 1 and of
\* others
C18_Witness ==
    /\ Command({"categories"})
    /\ output[1].ok
    /\ args[1].parent = <<1>>
    /\ WireIds(<<>>) = {1, 2}
    /\ WireIds(<<1>>) = {3, 5}
    /\ ShownIds(Listing_(output[1].v)) = {3, 5}

\* C19: every discount percentage of a decoded Badges or Tags value lies in
\* 0..100.
C19_DiscountInRange ==
    (Done /\ target \in {"Badges", "Tags"} /\ decoded[1].ok
        /\ decoded[1].v.discount_percentage # <<>>)
        => decoded[1].v.discount_percentage[1] \in 0..100

AsProduct == from_str(Struct("Product"), doc)
AsDeal == from_str(Struct("Deal"), doc)

FieldNames(n) == {Fields(n)[x].name : x \in 1..Len(Fields(n))}

\* the document decoded is an object, to be read as a Product or as a Deal
ProductLike == Done /\ target \in {"Product", "Deal"} /\ IsObject(doc)

\* C20 as stated: decoding one JSON object as a Deal and as a Product yields
\* equal values for every Product field, category included, and one decode
\* succeeds exactly when the other does.
C20_DealIsProduct_AsClaimed ==
    ProductLike =>
        /\ AsProduct.ok <=> AsDeal.ok
        /\ AsProduct.ok =>
              \A f \in FieldNames("Product") :
                  f \in DOMAIN AsDeal.v /\ AsDeal.v[f] = AsProduct.v[f]

\* the object has no category member, or one that is a string
CategoryIsText ==
    LET v == JsonAt(doc, 1).v
    IN  Missing(v, "category") \/ (HasOne(v, "category") /\ Get(v, "category").t = "str")

\* C20 (amended): Deal has the fields of Product except category, with the
\* same defaulting rules: an object that decodes as a Product decodes as a
\* Deal with equal values for id, name, brand, price_min, total_offers, url,
\* images, badges, rating and tags; a Deal holds no category, and an object
\* that decodes as a Deal decodes as a Product when its category member is
\* absent or a string.
C20_DealIsProduct ==
    ProductLike =>
        /\ decoded[1] = (IF target = "Deal" THEN AsDeal ELSE AsProduct)
        /\ AsProduct.ok => AsDeal.ok
        /\ (AsDeal.ok /\ CategoryIsText) => AsProduct.ok
        /\ AsDeal.ok => FieldNames("Product") \ DOMAIN AsDeal.v = {"category"}
        /\ (AsDeal.ok /\ AsProduct.ok) =>
              \A f \in FieldNames("Deal") : AsDeal.v[f] = AsProduct.v[f]

\* an object with brand, priceMin and category decoded as a Deal
C20_Witness ==
    /\ ProductLike
    /\ target = "Deal"
    /\ doc = ProductWith({"brand", "priceMin", "category"})
    /\ decoded[1].ok
    /\ decoded[1].v.brand = Lit("Apple")
    /\ AsProduct.ok
    /\ AsProduct.v.category = Lit("Phones")

(***************************************************************************)
(* Properties of the extraction (SpecParse)                                *)
(***************************************************************************)
\* where the payload starts: behind the first start marker of the page
PayloadFrom == Least(Occ(html, StartMarker)) + Len(StartMarker)

\* the end markers that stand at or behind the start of the payload
EndsAfter == {e \in Occ(html, EndMarker) : e >= PayloadFrom}

\* the page is not blocked and holds a start marker with an end marker after
Extractable ==
    /\ Done
    /\ Occ(html, BlockMarker) = {}
    /\ Occ(html, StartMarker) # {}
    /\ EndsAfter # {}

\* C22: the payload is the text between the end of the first start marker
\* and the start of the first end marker that follows it; end markers before
\* the start marker and later start markers are ignored, and the payload is
\* cut at the first end marker even inside the JSON literal.
C22_FirstMarkers ==
    Extractable => json_str = <<Slice(html, PayloadFrom, Least(EndsAfter))>>

\* an end marker before the first start marker, a second start marker, and
\* a payload cut at an end marker inside a string of the literal
C22_Witness ==
    /\ Extractable
    /\ \E e \in Occ(html, EndMarker) : e < Least(Occ(html, StartMarker))
    /\ Cardinality(Occ(html, StartMarker)) >= 2
    /\ Cardinality(EndsAfter) >= 2
    /\ json_str = <<Slice(html, PayloadFrom, Least(EndsAfter))>>
    /\ ~IsJson(json_str[1])
    /\ \E e \in EndsAfter : IsJson(Slice(html, PayloadFrom, e))

\* what parse_search_html returned is a value: Ok(SearchResult) or an error
Returned ==
    \/ search_result.ok /\ DOMAIN search_result.v = {"products", "total"}
    \/ ~search_result.ok /\ "msg" \in DOMAIN search_result

\* the offsets parse_search_html slices at, as it computes them
SliceStart == Find(html, StartMarker) + Len(StartMarker)
SliceEnd == SliceStart + Find(SliceFrom(html, SliceStart), EndMarker)

\* C23: for every page parse_search_html returns Ok or Err and does not
\* abort; when it slices, 0 <= json_start <= json_start + json_end <= the
\* length of the page, and the slice is the text it decodes.
C23_NeverAborts ==
    Done =>
        /\ Returned
        /\ (~IsBlocked(html) /\ Find(html, StartMarker) # NotFound)
              => /\ 0 <= SliceStart
                 /\ SliceStart <= Len(html)
                 /\ Find(SliceFrom(html, SliceStart), EndMarker) # NotFound
                       => /\ SliceStart <= SliceEnd
                          /\ SliceEnd <= Len(html)
                          /\ json_str = <<SubSeq(html, SliceStart + 1, SliceEnd)>>

\* the start marker is the last thing of the page, behind an end marker
C23_Witness ==
    /\ Done
    /\ Returned
    /\ Find(html, StartMarker) # NotFound
    /\ SliceStart = Len(html)
    /\ Occ(html, EndMarker) # {}
    /\ search_result = Err(MsgNoEnd, <<>>)

\* how often the request carries query parameter key
Carried(key) ==
    Cardinality({x \in 1..Len(call[1].query) : call[1].query[x][1] = key})

\* C25: a deals request carries priceRange, discountRange, rows and page
\* once each, also without price or discount filter; page is 1 and rows is
\* the caller's max.
C25_FourParameters ==
    DealsCalled =>
        /\ call[1].endpoint = "deals"
        /\ \A key \in {"priceRange", "discountRange", "rows", "page"} : Carried(key) = 1
        /\ Len(call[1].query) = 4
        /\ Param("page") = <<N(1)>>
        /\ Param("rows") = <<N(args[1].max)>>

\* a deals call without filters, whose request carries both filter tokens
C25_Witness ==
    /\ DealsCalled
    /\ args[1].min_discount = <<>>
    /\ args[1].min_price = <<>>
    /\ args[1].max_price = <<>>
    /\ Carried("priceRange") = 1
    /\ Carried("discountRange") = 1
    /\ Param("rows") = <<N(MaxRows)>>

\* a price bound below zero, not a number, or beyond u32::MAX
Negative(b) == b.k = "neg_inf" \/ (b.k = "fin" /\ b.tenths < 0)
Beyond(b) == b.k \in {"huge", "inf"}

\* the number the token must hold for bound b: a base-10 integer in
\* 0..2^32-1
Saturated(b, part) ==
    /\ part = U32MaxText[1] \/ (part.c = "num" /\ part.int /\ part.n >= 0)
    /\ Negative(b) => part = N(0)
    /\ Beyond(b) => part = U32MaxText[1]
    /\ (b.k = "fin" /\ b.tenths >= 0) => part = N(b.tenths \div 10)

\* C26: each number of the price-range token is a base-10 integer in
\* 0..2^32-1, 0 for a negative bound and 4294967295 for a bound beyond
\* 2^32-1; the lower bound comes first also when it exceeds the upper bound.
C26_Saturation ==
    DealsCalled =>
        /\ Len(Param("priceRange")) = 3
        /\ Param("priceRange")[2] = X("_")
        /\ Saturated(unwrap_or(args[1].min_price, Fin(0)), Param("priceRange")[1])
        /\ Saturated(unwrap_or(args[1].max_price, Fin(500000)), Param("priceRange")[3])

\* a lower bound beyond u32::MAX above a negative upper bound
C26_Witness ==
    /\ DealsCalled
    /\ args[1].min_price = <<Huge>>
    /\ args[1].max_price = <<Fin(0 - 25)>>
    /\ Param("priceRange") = <<U32MaxText[1], X("_"), N(0)>>

(***************************************************************************)
(* SpecFormat: one function of format/mod.rs applied to one argument list  *)
(***************************************************************************)
MaxChars == 4   \* generated strings have 0..MaxChars characters
MaxOver == 2    \* generated category lists exceed TableRows by up to MaxOver

\* characters of one, two and three bytes
Alphabet == {X("a"), X("<U+00E9>"), Euro}

Strings == UNION {[1..k -> Alphabet] : k \in 0..MaxChars}

\* the widths the renderers truncate to (mod.rs 67, 108, 168)
Caps == {48, 43, 38}

\* names about as long as a table cell: of cap - 1, cap and cap + 1 bytes,
\* in one-byte characters and with a two-byte character across byte cap - 1
LongNames ==
    UNION {{Ascii(cap - 1), Ascii(cap), Ascii(cap + 1),
            Ascii(cap - 2) \o <<X("<U+00E9>"), X("b"), X("c")>>,
            Ascii(cap - 3) \o <<X("<U+00E9>"), X("b"), X("c")>>} : cap \in Caps}

TruncateInputs ==
    {[fn |-> "truncate", s |-> s, max |-> cap] : s \in Strings, cap \in 0..(MaxChars + 1)}
        \cup {[fn |-> "truncate", s |-> s, max |-> cap] : s \in LongNames, cap \in Caps}

\* a Category value
Cat(id, parent, label) ==
    [id |-> id, parent_id |-> parent, label |-> label, slug |-> Lit("slug"),
     has_child |-> FALSE, url |-> <<>>, image_url |-> <<>>]

\* n categories in descending order of id, a third of them without parent
Many(n) ==
    [x \in 1..n |->
        Cat(n + 1 - x, IF x % 3 = 0 THEN <<>> ELSE <<x % 3>>, Lit("label"))]

CategoryLists ==
    {<<>>,
     <<Cat(3, <<1>>, Lit("c")), Cat(1, <<>>, Lit("a")), Cat(2, <<1>>, Lit("b")),
       Cat(4, <<>>, Lit("d"))>>,
     <<Cat(2, <<7>>, Ascii(39)), Cat(1, <<7>>, Ascii(38))>>,
     <<Cat(1, <<>>, Ascii(36) \o <<X("<U+00E9>"), X("b"), X("c")>>)>>}
        \cup {Many(n) : n \in 1..3}
        \cup {Many(n) : n \in (TableRows - 1)..(TableRows + MaxOver)}

TableInputs == {[fn |-> "format_categories_table", categories |-> cs] : cs \in CategoryLists}

\* a product whose name and brand hold characters that JSON escapes
ProdEscapes ==
    JObj(<< <<"id", <<N(8)>> >>,
            <<"name", JStr(<<X("a"), Esc(Quote), X("b"), Esc(X("\\")), Euro>>)>>,
            <<"brand", JStr(<<Esc(NL), Esc(Tab)>>)>> >>)

\* the types whose values the JSON format writes
JsonTypes == {"Product", "Deal", "Category", "PriceHistory"}

JsonDocs ==
    {input \in DecodeInputs : input[1] \in JsonTypes}
        \cup {<<"Product", ProdFull>>, <<"Product", ProdEscapes>>, <<"Deal", ProdEscapes>>,
              <<"Deal", DealText(1, <<30>>, <<15>>)>>,
              <<"Category", ChildText(3, <<N(1)>>, "Phones")>>,
              <<"PriceHistory", JObj(<< <<"minAxis", <<N(1)>> >>,
                                        <<"maxAxis", <<F(25)>> >>,
                                        <<"data", JArr(<<>>)>> >>)>>}

\* the values the response model yields for the documents
JsonInputs ==
    {[fn |-> "to_json", ty |-> input[1], v |-> from_str(Struct(input[1]), input[2]).v] :
        input \in {d \in JsonDocs : from_str(Struct(d[1]), d[2]).ok}}

InitFormat ==
    /\ given \in TruncateInputs \cup TableInputs \cup JsonInputs
    /\ rendered = <<>>
    /\ pc = "ready"
    /\ IdleParse
    /\ IdleDecode
    /\ IdleClient

Truncate ==
    /\ pc = "ready"
    /\ given.fn = "truncate"
    /\ rendered' = <<truncate(given.s, given.max)>>
    /\ pc' = "done"
    /\ UNCHANGED <<html, max, json_str, search_result, doc, target, decoded, call, resp,
                   result, requests, args, output, stdout, given>>

FormatCategoriesTable ==
    /\ pc = "ready"
    /\ given.fn = "format_categories_table"
    /\ rendered' = <<format_categories_table(given.categories)>>
    /\ pc' = "done"
    /\ UNCHANGED <<html, max, json_str, search_result, doc, target, decoded, call, resp,
                   result, requests, args, output, stdout, given>>

ToJson ==
    /\ pc = "ready"
    /\ given.fn = "to_json"
    /\ rendered' = <<to_json(Struct(given.ty), given.v)>>
    /\ pc' = "done"
    /\ UNCHANGED <<html, max, json_str, search_result, doc, target, decoded, call, resp,
                   result, requests, args, output, stdout, given>>

NextFormat ==
    \/ Truncate
    \/ FormatCategoriesTable
    \/ ToJson

SpecFormat == InitFormat /\ [][NextFormat]_vars

(***************************************************************************)
(* Properties of the renderers (SpecFormat)                                *)
(***************************************************************************)
Applied(fn) == Done /\ given # <<>> /\ given.fn = fn

\* C24: truncate(s, max) returns s when s has at most max characters, and
\* otherwise a string of exactly max characters that ends with the ellipsis;
\* it does so for every string, multi-byte characters included, and does
\* not abort.
C24_Truncate ==
    Applied("truncate") =>
        /\ rendered[1] # Panicked
        /\ Len(given.s) <= given.max => rendered[1] = given.s
        /\ Len(given.s) > given.max
              => /\ Len(rendered[1]) = given.max
                 /\ rendered[1][given.max] = Ellipsis

\* the rows of the table: what follows the head line and the rule, eight
\* tokens a row; the first cell of a row is the id, the third the parent
RowCell(out, r, cell) == out[16 + 8 * (r - 1) + 2 * cell - 1]

\* row r of the table shows category c
Shows(out, r, c) ==
    /\ RowCell(out, r, 1) = Left(<<N(c.id)>>, 8)
    /\ RowCell(out, r, 2)
          = Left(IF c.parent_id = <<>> THEN Lit("-") ELSE <<N(c.parent_id[1])>>, 8)

\* (parent_id, id) of a is not after that of b, parentless first
NotAfter(a, b) ==
    \/ a.parent_id = <<>> /\ b.parent_id # <<>>
    \/ a.parent_id = <<>> /\ b.parent_id = <<>> /\ a.id <= b.id
    \/ /\ a.parent_id # <<>>
       /\ b.parent_id # <<>>
       /\ \/ a.parent_id[1] < b.parent_id[1]
          \/ a.parent_id[1] = b.parent_id[1] /\ a.id <= b.id

\* C27: the categories table lists the given categories sorted by
\* (parent_id, id), parentless first, shows at most 50 rows, and appends a
\* trailer reporting (number of categories - 50) more when more than 50 are
\* given; with 50 or fewer there is no trailer and every category is shown
\* once.
C27_CategoriesTable ==
    (Applied("format_categories_table") /\ given.categories # <<>>) =>
        LET out == rendered[1]
            cs == given.categories
            n == Len(given.categories)
            k == IF Len(given.categories) > 50 THEN 50 ELSE Len(given.categories)
        IN  /\ out # Panicked
            /\ Len(out) = 16 + 8 * k + (IF n > 50 THEN 5 ELSE 0)
            /\ \A x \in 1..n :
                  Cardinality({r \in 1..k : Shows(out, r, cs[x])}) <= 1
            /\ \A r \in 1..k : \E x \in 1..n : Shows(out, r, cs[x])
            /\ \A r \in 1..k, x \in 1..n, y \in 1..n :
                  \/ ~Shows(out, r, cs[x])
                  \/ NotAfter(cs[x], cs[y])
                  \/ \E q \in 1..(r - 1) : Shows(out, q, cs[y])
            /\ n <= 50 => \A x \in 1..n : \E r \in 1..k : Shows(out, r, cs[x])
            /\ n > 50 => SubSeq(out, 16 + 8 * k + 1, Len(out))
                            = <<NL, X("... and "), N(n - 50), X(" more categories"), NL>>

\* the JSON output read back with the response model
ReadBack == from_str(Struct(given.ty), rendered[1])

\* the JSON output is an object that holds key once
Keyed(key) == HasOne(JsonAt(rendered[1], 1).v, key)

\* the external keys of the fields whose Rust name has more than one word
ExternalKeys(ty) ==
    CASE ty \in {"Product", "Deal"} -> {"priceMin", "totalOffers"}
      [] ty = "Category" -> {"parentId", "hasChild", "imageUrl"}
      [] ty = "PriceHistory" -> {"minAxis", "maxAxis"}

InternalKeys(ty) ==
    CASE ty \in {"Product", "Deal"} -> {"price_min", "total_offers"}
      [] ty = "Category" -> {"parent_id", "has_child", "image_url"}
      [] ty = "PriceHistory" -> {"min_axis", "max_axis"}

MaxCalls == 3   \* a session makes at most MaxCalls calls

\* what the transport may do with a request of a session: the request is
\* not sent, or one of bodies arrives
SessionNets(bodies) == {SendFailure} \cup {Response(200, <<b>>) : b \in bodies}

InitSession ==
    /\ IdleParse
    /\ IdleDecode
    /\ IdleClient
    /\ IdleFormat
    /\ pc = "ready"

\* the last call before this one that has the arguments a and returned Ok
LastOk(a) ==
    LET hits == {x \in 1..Len(args) : args[x] = a /\ result[x].ok}
    IN  IF hits = {} THEN <<>> ELSE <<result[CHOOSE k \in hits : \A h \in hits : h <= k]>>

\* CallProducts with the client keeping the last listing of each size and
\* returning it when the request cannot be sent
CallProducts_Cached ==
    \E rows \in {1, MaxRows},
       net \in SessionNets({Listing(<<Prod1, Prod2>>, 2)}) :
        /\ Len(call) < MaxCalls
        /\ args' = Append(args, [method |-> "products", rows |-> rows])
        /\ call' = Append(call, Request("products", <<X("/products")>>,
                                        << <<"rows", <<N(rows)>> >> >>))
        /\ resp' = Append(resp, net)
        /\ result' = Append(result,
                            IF net.k = "error" /\ LastOk(args'[Len(args')]) # <<>>
                            THEN LastOk(args'[Len(args')])[1]
                            ELSE products(net))
        /\ requests' = requests + 1
        /\ UNCHANGED <<html, max, json_str, search_result, doc, target, decoded, pc,
                       output, stdout, given, rendered>>

\* client.rs 36-47: products(&self, rows)
CallProducts ==
    \E rows \in {1, MaxRows},
       net \in SessionNets({Listing(<<Prod1, Prod2>>, 2)}) :
        /\ Len(call) < MaxCalls
        /\ args' = Append(args, [method |-> "products", rows |-> rows])
        /\ call' = Append(call, Request("products", <<X("/products")>>,
                                        << <<"rows", <<N(rows)>> >> >>))
        /\ resp' = Append(resp, net)
        /\ result' = Append(result, products(net))
        /\ requests' = requests + 1
        /\ UNCHANGED <<html, max, json_str, search_result, doc, target, decoded, pc,
                       output, stdout, given, rendered>>

\* client.rs 50-75: deals(&self, rows, page, min_discount, min_price, max_price)
CallDeals ==
    \E min_discount \in {<<5>>},
       net \in {Response(500, <<>>),
                Response(200, <<Listing(<<DealText(1, <<30>>, <<15>>)>>, 40)>>)} :
        /\ Len(call) < MaxCalls
        /\ args' = Append(args, [method |-> "deals", rows |-> 1, page |-> 1,
                                 min_discount |-> min_discount, min_price |-> <<>>,
                                 max_price |-> <<>>])
        /\ call' = Append(call,
                          Request("deals", <<X("/deals")>>,
                                  << <<"priceRange", price_range(<<>>, <<>>)>>,
                                     <<"discountRange", discount_range(min_discount)>>,
                                     <<"rows", <<N(1)>> >>,
                                     <<"page", <<N(1)>> >> >>))
        /\ resp' = Append(resp, net)
        /\ result' = Append(result, deals(net))
        /\ requests' = requests + 1
        /\ UNCHANGED <<html, max, json_str, search_result, doc, target, decoded, pc,
                       output, stdout, given, rendered>>

\* client.rs 78-89: price_history(&self, product_id, days)
CallPriceHistory ==
    \E net \in {SendFailure,
                Response(200, <<JObj(<< <<"minAxis", <<F(100)>> >>,
                                        <<"data", JArr(<<>>)>> >>)>>)} :
        /\ Len(call) < MaxCalls
        /\ args' = Append(args, [method |-> "price_history", product_id |-> 1, days |-> 1])
        /\ call' = Append(call, Request("price_history",
                                        <<X("/products/"), N(1), X("/price-history")>>,
                                        << <<"days", <<N(1)>> >> >>))
        /\ resp' = Append(resp, net)
        /\ result' = Append(result, price_history(net))
        /\ requests' = requests + 1
        /\ UNCHANGED <<html, max, json_str, search_result, doc, target, decoded, pc,
                       output, stdout, given, rendered>>

\* client.rs 92-103: popular(&self, category_id, rows)
CallPopular ==
    \E net \in {Response(200, <<JArr(<<Prod1, Prod2>>)>>)} :
        /\ Len(call) < MaxCalls
        /\ args' = Append(args, [method |-> "popular", category_id |-> 1, rows |-> 1])
        /\ call' = Append(call, Request("popular", <<X("/products/popular")>>,
                                        << <<"categoryId", <<N(1)>> >>,
                                           <<"rows", <<N(1)>> >> >>))
        /\ resp' = Append(resp, net)
        /\ result' = Append(result, popular(net))
        /\ requests' = requests + 1
        /\ UNCHANGED <<html, max, json_str, search_result, doc, target, decoded, pc,
                       output, stdout, given, rendered>>

\* client.rs 106-112: related(&self, product_id)
CallRelated ==
    \E net \in {Response(404, <<NotJson>>)} :
        /\ Len(call) < MaxCalls
        /\ args' = Append(args, [method |-> "related", product_id |-> 1])
        /\ call' = Append(call, Request("related",
                                        <<X("/products/"), N(1), X("/related")>>, <<>>))
        /\ resp' = Append(resp, net)
        /\ result' = Append(result, related(net))
        /\ requests' = requests + 1
        /\ UNCHANGED <<html, max, json_str, search_result, doc, target, decoded, pc,
                       output, stdout, given, rendered>>

\* client.rs 115-120: categories(&self)
CallCategories ==
    \E net \in {SendFailure,
                Response(200, <<JArr(<<CategoryText(1, "Electronics")>>)>>)} :
        /\ Len(call) < MaxCalls
        /\ args' = Append(args, [method |-> "categories"])
        /\ call' = Append(call, Request("categories", <<X("/categories")>>, <<>>))
        /\ resp' = Append(resp, net)
        /\ result' = Append(result, categories(net))
        /\ requests' = requests + 1
        /\ UNCHANGED <<html, max, json_str, search_result, doc, target, decoded, pc,
                       output, stdout, given, rendered>>

\* client.rs 123-125: search(&self, query, max), through a transport built
\* for this call
CallSearch ==
    \E m \in {1},
       net \in {BuildFailure, Response(200, <<Page(SearchDoc(<<Prod1, Prod2>>, 100))>>)} :
        /\ Len(call) < MaxCalls
        /\ args' = Append(args, [method |-> "search", query |-> Lit("iphone"), max |-> m])
        /\ call' = Append(call, Request("search", <<X("/search")>>,
                                        << <<"q", Lit("iphone")>> >>))
        /\ resp' = Append(resp, net)
        /\ result' = Append(result, search_with_base_url(m, net))
        /\ requests' = IF net.k = "build" THEN requests ELSE requests + 1
        /\ UNCHANGED <<html, max, json_str, search_result, doc, target, decoded, pc,
                       output, stdout, given, rendered>>

NextSession ==
    \/ CallProducts
    \/ CallDeals
    \/ CallPriceHistory
    \/ CallPopular
    \/ CallRelated
    \/ CallCategories
    \/ CallSearch

SpecSession == InitSession /\ [][NextSession]_vars

====
